---------------------------- MODULE Spec2Model ----------------------------
(***************************************************************************)
(* A model of poly_scan (src/stage1/poly_scan): the OrderFilled pipeline   *)
(* of Scanner (fetch_events / fetch_tx_events -> process_logs ->           *)
(* get_decimals / parse_final) and the pure helpers of utils.rs.           *)
(*                                                                         *)
(* Representation of the 256-bit values:                                   *)
(*   - an asset id is [hi |-> h, lo |-> a]: the value h * 2^160 + a, so    *)
(*     that `lo` is exactly the low 160 bits (bytes 12..32), the candidate *)
(*     token address, and the id is zero iff hi = 0 and lo = 0;            *)
(*   - an amount is [m |-> m, e |-> e]: the value m * 10^e, in canonical   *)
(*     form (m not divisible by 10; zero is [m |-> 0, e |-> 0]), so that   *)
(*     record equality is equality of the values;                          *)
(*   - a log index or an outcome slot count, which the code casts with     *)
(*     as_u64, is [high |-> h, low |-> l]: the value h * 2^64 + l, so that *)
(*     the cast overflows iff high is not 0;                               *)
(*   - a string is a sequence of one-character strings.                    *)
(* An f64 is a decimal [m, e] (m * 10^e).  The inputs are kept to the      *)
(* range where f64 arithmetic yields the correctly rounded quotient        *)
(* (PriceInRange): below 2^31 millionths and not an exact rounding tie.    *)
(***************************************************************************)
EXTENDS Integers, Sequences, FiniteSets, TLC

(***************************************************************************)
(* Bounds of the model.                                                    *)
(***************************************************************************)
MaxLogs == 2          \* logs in one batch
MaxMantissa == 6      \* largest mantissa of an amount given to calculate_price
MaxShift == 7         \* largest power of ten the quotient in millionths is scaled by

(***************************************************************************)
(* Program constants.                                                      *)
(***************************************************************************)
MIN_DATA_LEN == 128        \* scanner.rs:215
WORD == 32                 \* bytes of one ABI word (scanner.rs:218)
SENTINEL_DECIMALS == 6     \* scanner.rs:315, 343
DEFAULT_DECIMALS == 18     \* scanner.rs:310, 311
PRICE_DIGITS == 6          \* utils.rs:27

(***************************************************************************)
(* Strings.                                                                *)
(***************************************************************************)
RECURSIVE Pow10(_)
Pow10(n) == IF n = 0 THEN 1 ELSE 10 * Pow10(n - 1)

HexChars == <<"0", "1", "2", "3", "4", "5", "6", "7", "8", "9",
              "a", "b", "c", "d", "e", "f">>

DigitChar(d) == HexChars[d + 1]

DigitValue(c) == CHOOSE d \in 0..9 : HexChars[d + 1] = c

Zeros(n) == [j \in 1..n |-> "0"]

PadLeft(s, w) == IF Len(s) >= w THEN s ELSE Zeros(w - Len(s)) \o s

RECURSIVE DecDigits(_)
DecDigits(n) ==
    IF n < 10 THEN <<DigitChar(n)>>
    ELSE DecDigits(n \div 10) \o <<DigitChar(n % 10)>>

RECURSIVE HexDigits(_)
HexDigits(n) ==
    IF n < 16 THEN <<DigitChar(n)>>
    ELSE HexDigits(n \div 16) \o <<DigitChar(n % 16)>>

RECURSIVE StripLeadingZeros(_)
StripLeadingZeros(s) ==
    IF Len(s) > 0 /\ Head(s) = "0" THEN StripLeadingZeros(Tail(s)) ELSE s

RECURSIVE TrailingZeros(_)
TrailingZeros(s) ==
    IF Len(s) > 0 /\ s[Len(s)] = "0"
    THEN 1 + TrailingZeros(SubSeq(s, 1, Len(s) - 1))
    ELSE 0

RECURSIVE DigitsToInt(_)
DigitsToInt(s) ==
    IF Len(s) = 0 THEN 0
    ELSE 10 * DigitsToInt(SubSeq(s, 1, Len(s) - 1)) + DigitValue(s[Len(s)])

(***************************************************************************)
(* utils.rs                                                                *)
(***************************************************************************)
ZeroAmount == [m |-> 0, e |-> 0]

\* val.to_string(): the decimal digits of m * 10^e
u256_to_string(val) ==
    IF val.m = 0 THEN <<"0">> ELSE DecDigits(val.m) \o Zeros(val.e)

\* ethers format_units(amount, units).unwrap_or_default(): "" when units >= 78
\* (ParseOverflow), else "<amount / 10^units>.<amount % 10^units, padded to
\* units digits>"
format_units(amount, units) ==
    IF units >= 78 THEN <<>>
    ELSE LET s == u256_to_string(amount)
             n == Len(s)
             integer == IF n > units THEN SubSeq(s, 1, n - units) ELSE <<"0">>
             low == IF n > units THEN SubSeq(s, n - units + 1, n) ELSE s
             rest == StripLeadingZeros(low)
             decimals == IF rest = <<>> THEN <<"0">> ELSE rest
         IN  integer \o <<".">> \o PadLeft(decimals, units)

\* str::parse::<f64>().unwrap_or(0.0) of "<digits>.<digits>": the decimal
\* [m, e] it denotes; 0.0 for the empty string
parse_f64(str) ==
    IF str = <<>> THEN ZeroAmount
    ELSE LET dot == CHOOSE j \in 1..Len(str) : str[j] = "."
             frac == SubSeq(str, dot + 1, Len(str))
             all == SubSeq(str, 1, dot - 1) \o frac
             tz == TrailingZeros(all)
             sig == StripLeadingZeros(SubSeq(all, 1, Len(all) - tz))
         IN  IF sig = <<>> THEN ZeroAmount
             ELSE [m |-> DigitsToInt(sig), e |-> tz - Len(frac)]

\* num / den rounded to the nearest integer, ties to even
RoundHalfEven(num, den) ==
    LET q == num \div den
        r == num % den
    IN  IF 2 * r > den \/ (2 * r = den /\ q % 2 = 1) THEN q + 1 ELSE q

\* maker_f / taker_f in millionths, rounded to the nearest (taker_f # 0.0);
\* a quotient below 10^-(digits of the mantissa) millionths rounds to 0
QuotientMillionths(maker_f, taker_f) ==
    LET k == maker_f.e - taker_f.e + PRICE_DIGITS
    IN  IF maker_f.m = 0 THEN 0
        ELSE IF k >= 0 THEN RoundHalfEven(maker_f.m * Pow10(k), taker_f.m)
        ELSE IF -k > Len(DecDigits(maker_f.m)) THEN 0
        ELSE RoundHalfEven(maker_f.m, taker_f.m * Pow10(-k))

\* format!("{:.6}", price)
format_price(millionths) ==
    DecDigits(millionths \div Pow10(PRICE_DIGITS)) \o <<".">>
        \o PadLeft(DecDigits(millionths % Pow10(PRICE_DIGITS)), PRICE_DIGITS)

\* calculate_price without the zero-divisor guard: 0.0 / 0.0 and x / 0.0
calculate_price_noguard(maker_amount, maker_decimals, taker_amount, taker_decimals) ==
    LET maker_f == parse_f64(format_units(maker_amount, maker_decimals))
        taker_f == parse_f64(format_units(taker_amount, taker_decimals))
    IN  IF taker_f.m = 0
        THEN (IF maker_f.m = 0 THEN <<"N", "a", "N">> ELSE <<"i", "n", "f">>)
        ELSE format_price(QuotientMillionths(maker_f, taker_f))

\* calculate_price with the quotient truncated instead of rounded
calculate_price_truncated(maker_amount, maker_decimals, taker_amount, taker_decimals) ==
    LET maker_f == parse_f64(format_units(maker_amount, maker_decimals))
        taker_f == parse_f64(format_units(taker_amount, taker_decimals))
        k == maker_f.e - taker_f.e + PRICE_DIGITS
    IN  IF taker_f.m = 0 THEN <<"0", ".", "0">>
        ELSE IF maker_f.m = 0 \/ k < -2 THEN format_price(0)
        ELSE IF k >= 0 THEN format_price((maker_f.m * Pow10(k)) \div taker_f.m)
        ELSE format_price(maker_f.m \div (taker_f.m * Pow10(-k)))

calculate_price(maker_amount, maker_decimals, taker_amount, taker_decimals) ==
    LET maker_f == parse_f64(format_units(maker_amount, maker_decimals))
        taker_f == parse_f64(format_units(taker_amount, taker_decimals))
    IN  IF taker_f.m = 0 THEN <<"0", ".", "0">>
        ELSE format_price(QuotientMillionths(maker_f, taker_f))

\* The inputs on which the decimal arithmetic above is that of f64: the
\* quotient in millionths has at most MaxShift digits more than the mantissa
\* and is not halfway between two millionths (there the rounding error of
\* the f64 division decides the last digit).
PriceInRange(maker_amount, maker_decimals, taker_amount, taker_decimals) ==
    LET k == (maker_amount.e - maker_decimals)
               - (taker_amount.e - taker_decimals) + PRICE_DIGITS
        num == IF k >= 0 THEN maker_amount.m * Pow10(k) ELSE maker_amount.m
        den == IF k >= 0 THEN taker_amount.m ELSE taker_amount.m * Pow10(-k)
    IN  \/ taker_amount.m = 0
        \/ maker_amount.m = 0
        \/ taker_decimals >= 78
        \/ maker_decimals >= 78
        \/ -k > Len(DecDigits(maker_amount.m))
        \/ /\ k <= MaxShift
           /\ 2 * (num % den) # den

\* format_address: format!("{:?}", addr), "0x" and the 40 hex digits
format_address(addr) == <<"0", "x">> \o PadLeft(HexDigits(addr), 40)

(***************************************************************************)
(* The values of the chain: addresses, hashes, words.                      *)
(***************************************************************************)
ExchangeAddress == 9       \* consts.rs:2 EXCHANGE_PROXY_ADDRESS
OtherAddress == ExchangeAddress - 1     \* a contract that is not the exchange

\* topic0 of the two events read here, as 256-bit words [hi, lo]
OrderFilledTopic == [hi |-> 1, lo |-> 10]      \* consts.rs:5
TransferTopic == [hi |-> 1, lo |-> 11]         \* scanner.rs:292

ZeroId == [hi |-> 0, lo |-> 0]
IdA == [hi |-> 0, lo |-> 1]     \* an id that is a padded address (address 1)
IdB == [hi |-> 1, lo |-> 2]     \* an opaque id (low 160 bits: address 2)

Collateral == [m |-> 1, e |-> 6]     \* 1,000,000
Tokens == [m |-> 5, e |-> 17]        \* 500,000,000,000,000,000

None == <<>>
Some(v) == <<v>>

\* a U256 that the code casts with as_u64 (a log index, an outcome slot
\* count), kept as high * 2^64 + low; as_u64 panics with "Integer overflow
\* when casting to u64" unless high is 0
U256From(n) == [high |-> 0, low |-> n]
TwoTo64 == [high |-> 1, low |-> 0]
FitsU64(u) == u.high = 0
as_u64(u) == u.low

\* Address::from_slice(&bytes[12..32]): the low 160 bits of the id
AddressOfId(id) == id.lo

\* format!("0x{:x}", id) of a U256
FormatHexU256(id) ==
    <<"0", "x">> \o (IF id.hi = 0 THEN HexDigits(id.lo)
                     ELSE HexDigits(id.hi) \o PadLeft(HexDigits(id.lo), 40))

\* format!("{:?}", h) of an H256 given as a number
FormatH256(h) == <<"0", "x">> \o PadLeft(HexDigits(h), 64)

(***************************************************************************)
(* What the RPC node may answer.                                           *)
(***************************************************************************)
MakerTopic == [hi |-> 0, lo |-> 5]
TakerTopic == [hi |-> 0, lo |-> 6]
OrderHashTopic == [hi |-> 2, lo |-> 3]

FullTopics == <<OrderFilledTopic, OrderHashTopic, MakerTopic, TakerTopic>>

\* data of an OrderFilled log: makerAssetId, takerAssetId, makerAmountFilled,
\* takerAmountFilled, fee (160 bytes)
FillData(mid, tid, mamt, tamt) == <<mid, tid, mamt, tamt, ZeroAmount>>

MkLogAt(addr, topics, data, tx, log_index) ==
    [address |-> addr, topics |-> topics, data |-> data,
     transaction_hash |-> tx, log_index |-> log_index]

MkLog(addr, topics, data, tx) == MkLogAt(addr, topics, data, tx, Some(U256From(3)))

TradeShapes ==
    { <<ZeroId, IdA, Collateral, Tokens>>,
      <<IdA, ZeroId, Tokens, Collateral>>,
      <<IdA, IdB, Collateral, Tokens>>,
      <<ZeroId, ZeroId, Collateral, Tokens>>,
      <<ZeroId, IdB, Collateral, ZeroAmount>> }

\* well-formed OrderFilled logs of the exchange
FillLogs ==
    { MkLog(ExchangeAddress, FullTopics, FillData(s[1], s[2], s[3], s[4]), Some(1)) :
        s \in TradeShapes }
    \cup { MkLog(ExchangeAddress, FullTopics,
                 FillData(IdA, IdB, Collateral, Tokens), Some(2)),
           MkLog(ExchangeAddress, FullTopics,
                 FillData(ZeroId, IdA, Collateral, Tokens), Some(2)),
           MkLog(ExchangeAddress, FullTopics,
                 FillData(ZeroId, IdA, Collateral, Tokens), None),
           MkLog(ExchangeAddress, FullTopics,
                 FillData(ZeroId, ZeroId, Collateral, Tokens), None),
           \* no log index, and a log index of 2^64
           MkLogAt(ExchangeAddress, FullTopics,
                   FillData(ZeroId, ZeroId, Collateral, Tokens), Some(1), None),
           MkLogAt(ExchangeAddress, FullTopics,
                   FillData(ZeroId, ZeroId, Collateral, Tokens), Some(2), Some(TwoTo64)) }

\* logs of the exchange that are not well-formed OrderFilled logs
OddLogs ==
    { \* 96 bytes of data
      MkLog(ExchangeAddress, FullTopics, <<ZeroId, IdA, Collateral>>, Some(1)),
      \* one topic, 160 bytes of data
      MkLog(ExchangeAddress, <<OrderFilledTopic>>,
            FillData(ZeroId, ZeroId, Collateral, Tokens), Some(1)),
      \* three topics, 160 bytes of data
      MkLog(ExchangeAddress, <<OrderFilledTopic, OrderHashTopic, MakerTopic>>,
            FillData(ZeroId, IdA, Collateral, Tokens), Some(2)) }

\* logs of a receipt that fetch_tx_events filters out
ForeignLogs ==
    { MkLog(OtherAddress, FullTopics, FillData(ZeroId, IdA, Collateral, Tokens), Some(1)),
      MkLog(ExchangeAddress, <<>>, FillData(ZeroId, IdA, Collateral, Tokens), Some(1)) }

SeqsUpTo(S, n) == UNION { [1..k -> S] : k \in 0..n }

\* answers of get_logs to the OrderFilled filter of the exchange
GetLogsAnswers == SeqsUpTo(FillLogs \cup OddLogs, MaxLogs)

\* logs of the receipt given to fetch_tx_events
TxReceiptLogs(tx_hash) ==
    SeqsUpTo({ l \in FillLogs \cup OddLogs \cup ForeignLogs :
                 l.transaction_hash = Some(tx_hash) }, MaxLogs)

\* answers of eth_call: an error, or Ok(bytes) with the length of the bytes
\* and their big-endian value hi * 2^32 + lo
CallErr == [ok |-> FALSE, len |-> 0, hi |-> 0, lo |-> 0]
CallBytes(len, hi, lo) == [ok |-> TRUE, len |-> len, hi |-> hi, lo |-> lo]
CallAnswers ==
    { CallErr, CallBytes(0, 0, 0), CallBytes(WORD, 0, 6), CallBytes(WORD, 0, 8),
      CallBytes(WORD, 1, 6), CallBytes(2 * WORD, 0, 6) }

\* logs of the receipts fetched by process_logs
TransferLogOf(addr, data) ==
    [address |-> addr, topics |-> <<TransferTopic, MakerTopic, TakerTopic>>,
     data |-> data]
TransferLog(addr, value) == TransferLogOf(addr, <<value>>)
Erc721Log(addr, value) ==
    [address |-> addr,
     topics |-> <<TransferTopic, MakerTopic, TakerTopic, OrderHashTopic>>,
     data |-> <<value>>]

\* a receipt with an ERC-721 Transfer (4 topics) and two ERC-20 Transfers of
\* the same value from different tokens, and one with two distinct values
CollidingReceipt ==
    <<Erc721Log(3, Collateral), TransferLog(3, Tokens), TransferLog(1, Tokens)>>
PlainReceipt == <<TransferLog(3, Collateral), TransferLog(3, Tokens)>>

\* a receipt with two ERC-20 Transfers of the same value followed by a
\* Transfer log with 64 bytes of data, and one whose Transfer log has no data
OversizedReceipt ==
    <<TransferLog(3, Tokens), TransferLog(1, Tokens),
      TransferLogOf(3, <<Tokens, Collateral>>)>>
EmptyDataReceipt == <<TransferLogOf(3, <<>>)>>

ReceiptAnswers ==
    { [ok |-> FALSE, receipt |-> None],
      [ok |-> TRUE, receipt |-> None],
      [ok |-> TRUE, receipt |-> Some(CollidingReceipt)],
      [ok |-> TRUE, receipt |-> Some(PlainReceipt)],
      [ok |-> TRUE, receipt |-> Some(OversizedReceipt)],
      [ok |-> TRUE, receipt |-> Some(EmptyDataReceipt)] }

(***************************************************************************)
(* The state: one run of an entry point of Scanner or of the manual mode   *)
(* of main, and one evaluation of a pure function of utils.rs.             *)
(***************************************************************************)
VARIABLES
    pc,                 \* where the run is: "start", "decode", "probe", "mark",
                        \* "fetch", "maker", "taker", "done" (Ok returned),
                        \* "error" (Err returned), or a panic of the task:
                        \* "panic_index" (topics[i] out of bounds),
                        \* "panic_unwrap" (unwrap of a None transaction hash),
                        \* "panic_slice", "panic_overflow" (get_decimals)
    entry,              \* the entry point called
    input,              \* the logs process_logs was called with
    logs,               \* the logs the first pass has not read yet
    raw_trades,         \* RawTrade of the first pass, not yet consumed by the final pass
    potential_tokens,   \* candidate addresses not yet probed
    tx_hashes,
    decimals_map,
    txs_to_fetch,       \* marked transactions whose receipt is not yet fetched
    receipt_token_map,
    maker_decimals,     \* of the trade the final pass is at
    trades,             \* the records pushed so far
    rpc,                \* every RPC request issued, in order, with its outcome
    px,                 \* a pure function called on its own: arguments and result
    markets,            \* the MarketInfo records returned or printed
    warnings            \* the warnings written, in order

vars == <<pc, entry, input, logs, raw_trades, potential_tokens, tx_hashes,
          decimals_map, txs_to_fetch, receipt_token_map, maker_decimals,
          trades, rpc, px, markets, warnings>>

scan_vars == <<pc, entry, input, logs, raw_trades, potential_tokens, tx_hashes,
               decimals_map, txs_to_fetch, receipt_token_map, maker_decimals,
               trades, rpc>>

EmptyMap == [x \in {} |-> 0]

Insert(map, k, v) == (k :> v) @@ map

(***************************************************************************)
(* Scanner::get_decimals: None for an error or fewer than 32 bytes;        *)
(* U256::from_big_endian panics on more than 32 bytes and as_u32 panics on *)
(* a value of 2^32 or more.  `panic` is "none" or the state of the panic.  *)
(***************************************************************************)
\* a get_decimals that answers the default for a failed or short call
get_decimals_or_default(r) ==
    IF ~r.ok THEN [panic |-> "none", val |-> Some(DEFAULT_DECIMALS)]
    ELSE IF r.len < WORD THEN [panic |-> "none", val |-> Some(DEFAULT_DECIMALS)]
    ELSE IF r.len > WORD THEN [panic |-> "panic_slice", val |-> None]
    ELSE IF r.hi # 0 THEN [panic |-> "panic_overflow", val |-> None]
    ELSE [panic |-> "none", val |-> Some(r.lo)]

get_decimals(r) ==
    IF ~r.ok THEN [panic |-> "none", val |-> None]
    ELSE IF r.len < WORD THEN [panic |-> "none", val |-> None]
    ELSE IF r.len > WORD THEN [panic |-> "panic_slice", val |-> None]
    ELSE IF r.hi # 0 THEN [panic |-> "panic_overflow", val |-> None]
    ELSE [panic |-> "none", val |-> Some(r.lo)]

CallOutcome(r) == IF ~r.ok THEN "err" ELSE IF r.len < WORD THEN "short" ELSE "ok"

CallEntry(addr, r) == [op |-> "call", arg |-> addr, res |-> CallOutcome(r), ret |-> r]

ReceiptEntry(tx, a) ==
    [op |-> "receipt", arg |-> tx,
     res |-> IF ~a.ok THEN "err" ELSE IF a.receipt = None THEN "none" ELSE "ok",
     logs |-> IF a.ok /\ a.receipt # None THEN a.receipt[1] ELSE <<>>]

(***************************************************************************)
(* Scanner::parse_final                                                    *)
(***************************************************************************)
\* SELL exactly when the taker pays collateral
SideByTaker(maker_asset_id, taker_asset_id) ==
    IF taker_asset_id = ZeroId THEN "SELL" ELSE "BUY"

Side(maker_asset_id, taker_asset_id) ==
    IF maker_asset_id = ZeroId THEN "BUY" ELSE "SELL"

\* the taker id whenever it is not zero
TokenIdPrefersTaker(maker_asset_id, taker_asset_id) ==
    IF taker_asset_id # ZeroId THEN taker_asset_id ELSE maker_asset_id

TokenId(maker_asset_id, taker_asset_id) ==
    IF maker_asset_id = ZeroId THEN taker_asset_id ELSE maker_asset_id

\* the decimals of the two legs exchanged in the first branch
PriceDecimalsSwapped(maker_asset_id, taker_asset_id, maker_amount, taker_amount, md, td) ==
    IF maker_asset_id = ZeroId
    THEN calculate_price(maker_amount, td, taker_amount, md)
    ELSE IF taker_asset_id = ZeroId
    THEN calculate_price(taker_amount, td, maker_amount, md)
    ELSE calculate_price(maker_amount, md, taker_amount, td)

Price(maker_asset_id, taker_asset_id, maker_amount, taker_amount, md, td) ==
    IF maker_asset_id = ZeroId
    THEN calculate_price(maker_amount, md, taker_amount, td)
    ELSE IF taker_asset_id = ZeroId
    THEN calculate_price(taker_amount, td, maker_amount, md)
    ELSE calculate_price(maker_amount, md, taker_amount, td)

\* maker_asset_str and taker_asset_str of the three branches that also
\* compute the price (scanner.rs:405-414): the first branch formats the taker
\* id in hexadecimal without looking at it, "0x0" when both ids are zero
maker_asset_str(maker_asset_id, taker_asset_id) ==
    IF maker_asset_id = ZeroId THEN <<"0">> ELSE FormatHexU256(maker_asset_id)

taker_asset_str(maker_asset_id, taker_asset_id) ==
    IF maker_asset_id = ZeroId THEN FormatHexU256(taker_asset_id)
    ELSE IF taker_asset_id = ZeroId THEN <<"0">>
    ELSE FormatHexU256(taker_asset_id)

OptDefault(opt, d) == IF opt = None THEN d ELSE opt[1]

\* panics on log.topics[2] / log.topics[3] when the log has fewer than 4
\* topics, and on as_u64 when the log index is 2^64 or more
parse_final(log, md, td) ==
    IF Len(log.topics) < 4 THEN [panic |-> "panic_index"]
    ELSE IF ~FitsU64(OptDefault(log.log_index, U256From(0)))
    THEN [panic |-> "panic_overflow"]
    ELSE LET maker == AddressOfId(log.topics[3])
             taker == AddressOfId(log.topics[4])
             maker_asset_id == log.data[1]
             taker_asset_id == log.data[2]
             maker_amount_filled == log.data[3]
             taker_amount_filled == log.data[4]
         IN  [panic |-> "none",
              output |-> [
                tx_hash |-> FormatH256(OptDefault(log.transaction_hash, 0)),
                log_index |-> as_u64(OptDefault(log.log_index, U256From(0))),
                exchange |-> format_address(log.address),
                maker |-> format_address(maker),
                taker |-> format_address(taker),
                maker_asset_id |-> maker_asset_str(maker_asset_id, taker_asset_id),
                taker_asset_id |-> taker_asset_str(maker_asset_id, taker_asset_id),
                maker_amount_filled |-> u256_to_string(maker_amount_filled),
                taker_amount_filled |-> u256_to_string(taker_amount_filled),
                maker_decimals |-> md,
                taker_decimals |-> td,
                price |-> Price(maker_asset_id, taker_asset_id,
                                maker_amount_filled, taker_amount_filled, md, td),
                token_id |-> FormatHexU256(TokenId(maker_asset_id, taker_asset_id)),
                side |-> Side(maker_asset_id, taker_asset_id)]]

(***************************************************************************)
(* Scanner::process_logs, one action per step between two awaits or loops. *)
(***************************************************************************)
DataLen(log) == WORD * Len(log.data)

NonZeroAddrs(maker_asset_id, taker_asset_id) ==
    { AddressOfId(id) : id \in {maker_asset_id, taker_asset_id} \ {ZeroId} }


\* a first pass that lets the probes start at the first candidate
AfterDecodeEager(ls, tokens) ==
    IF tokens # {} THEN "probe" ELSE IF ls # <<>> THEN "decode" ELSE "mark"

\* the phase after the first pass has read every log
AfterDecode(ls, tokens) ==
    IF ls # <<>> THEN "decode" ELSE IF tokens # {} THEN "probe" ELSE "mark"

\* the first pass with the size check after the collection of the candidates
DecodeLogLateCheck ==
    /\ pc = "decode"
    /\ logs # <<>>
    /\ LET log == Head(logs)
           rest == Tail(logs)
           tokens == potential_tokens \cup NonZeroAddrs(log.data[1], log.data[2])
       IN  /\ logs' = rest
           /\ potential_tokens' = tokens
           /\ pc' = AfterDecode(rest, tokens)
           /\ IF DataLen(log) < MIN_DATA_LEN
              THEN UNCHANGED <<raw_trades, tx_hashes>>
              ELSE /\ tx_hashes' = tx_hashes \cup
                        (IF log.transaction_hash = None THEN {}
                         ELSE {log.transaction_hash[1]})
                   /\ raw_trades' = Append(raw_trades,
                        [log |-> log,
                         maker_asset_id |-> log.data[1],
                         taker_asset_id |-> log.data[2],
                         maker_amount |-> log.data[3],
                         taker_amount |-> log.data[4]])
    /\ UNCHANGED <<entry, input, decimals_map, txs_to_fetch, receipt_token_map,
                   maker_decimals, trades, rpc, px, markets, warnings>>

\* 1. first pass, one log (scanner.rs:214-241)
DecodeLog ==
    /\ pc = "decode"
    /\ logs # <<>>
    /\ LET log == Head(logs)
           rest == Tail(logs)
       IN  /\ logs' = rest
           /\ IF DataLen(log) < MIN_DATA_LEN
              THEN /\ UNCHANGED <<raw_trades, potential_tokens, tx_hashes>>
                   /\ pc' = AfterDecode(rest, potential_tokens)
              ELSE LET maker_asset_id == log.data[1]
                       taker_asset_id == log.data[2]
                       tokens == potential_tokens
                                   \cup NonZeroAddrs(maker_asset_id, taker_asset_id)
                   IN  /\ potential_tokens' = tokens
                       /\ tx_hashes' = tx_hashes \cup
                            (IF log.transaction_hash = None THEN {}
                             ELSE {log.transaction_hash[1]})
                       /\ raw_trades' = Append(raw_trades,
                            [log |-> log,
                             maker_asset_id |-> maker_asset_id,
                             taker_asset_id |-> taker_asset_id,
                             maker_amount |-> log.data[3],
                             taker_amount |-> log.data[4]])
                       /\ pc' = AfterDecode(rest, tokens)
    /\ UNCHANGED <<entry, input, decimals_map, txs_to_fetch, receipt_token_map,
                   maker_decimals, trades, rpc, px, markets, warnings>>

\* 2. one direct probe of a candidate address (scanner.rs:246-253)
ProbeDirect ==
    /\ pc = "probe"
    /\ \E addr \in potential_tokens, r \in CallAnswers :
        LET g == get_decimals(r)
            left == potential_tokens \ {addr}
        IN  /\ rpc' = Append(rpc, CallEntry(addr, r))
            /\ potential_tokens' = left
            /\ IF g.panic # "none"
               THEN /\ pc' = g.panic
                    /\ UNCHANGED decimals_map
               ELSE /\ pc' = IF left = {} THEN "mark" ELSE "probe"
                    /\ decimals_map' = IF g.val = None THEN decimals_map
                                       ELSE Insert(decimals_map, addr, g.val[1])
    /\ UNCHANGED <<entry, input, logs, raw_trades, tx_hashes, txs_to_fetch,
                   receipt_token_map, maker_decimals, trades, px, markets, warnings>>


\* the legs of a trade that the direct probes left unresolved
UnresolvedIds(trade, map) ==
    { id \in {trade.maker_asset_id, trade.taker_asset_id} \ {ZeroId} :
        AddressOfId(id) \notin DOMAIN map }

\* 3. mark the transactions of the unresolved legs (scanner.rs:258-279);
\* transaction_hash.unwrap() panics on a log without a transaction hash
MarkTxs ==
    /\ pc = "mark"
    /\ LET flagged == { j \in 1..Len(raw_trades) :
                          UnresolvedIds(raw_trades[j], decimals_map) # {} }
           txs == { raw_trades[j].log.transaction_hash[1] :
                      j \in { n \in flagged :
                                raw_trades[n].log.transaction_hash # None } }
       IN  IF \E j \in flagged : raw_trades[j].log.transaction_hash = None
           THEN /\ pc' = "panic_unwrap"
                /\ UNCHANGED txs_to_fetch
           ELSE /\ txs_to_fetch' = txs
                /\ pc' = IF txs # {} THEN "fetch"
                         ELSE IF raw_trades # <<>> THEN "maker" ELSE "done"
    /\ UNCHANGED <<entry, input, logs, raw_trades, potential_tokens, tx_hashes,
                   decimals_map, receipt_token_map, maker_decimals, trades, rpc, px, markets, warnings>>

IsTransfer(log) ==
    /\ Len(log.topics) > 0
    /\ log.topics[1] = TransferTopic
    /\ Len(log.topics) = 3

\* U256::from_big_endian(&log.data) of a Transfer log with at most 32 bytes
\* of data: the value of the bytes, 0 when there are none
TransferValue(data) == IF data = <<>> THEN ZeroAmount ELSE data[1]

\* the value -> address map of a receipt: a later Transfer log replaces the
\* entry of an earlier one with the same value (HashMap::insert);
\* U256::from_big_endian panics on a Transfer log with more than 32 bytes of
\* data (scanner.rs:299)
RECURSIVE AmountMap(_, _)
AmountMap(receipt_logs, amount_map) ==
    IF receipt_logs = <<>> THEN [panic |-> "none", map |-> amount_map]
    ELSE LET log == Head(receipt_logs)
         IN  IF ~IsTransfer(log) THEN AmountMap(Tail(receipt_logs), amount_map)
             ELSE IF Len(log.data) > 1 THEN [panic |-> "panic_slice"]
             ELSE AmountMap(Tail(receipt_logs),
                            Insert(amount_map, TransferValue(log.data), log.address))

\* a receipt loop that does not start each transaction from an empty map
FetchReceiptSharedMap ==
    /\ pc = "fetch"
    /\ \E tx_hash \in txs_to_fetch, a \in ReceiptAnswers :
        LET left == txs_to_fetch \ {tx_hash}
            shared == IF DOMAIN receipt_token_map = {} THEN EmptyMap
                      ELSE receipt_token_map[CHOOSE t \in DOMAIN receipt_token_map : TRUE]
            amounts == IF a.ok /\ a.receipt # None
                       THEN AmountMap(a.receipt[1], shared)
                       ELSE [panic |-> "none"]
        IN  /\ rpc' = Append(rpc, ReceiptEntry(tx_hash, a))
            /\ txs_to_fetch' = left
            /\ receipt_token_map' =
                 IF a.ok /\ a.receipt # None /\ amounts.panic = "none"
                 THEN Insert(receipt_token_map, tx_hash, amounts.map)
                 ELSE receipt_token_map
            /\ pc' = IF amounts.panic # "none" THEN amounts.panic
                     ELSE IF left = {} THEN "maker" ELSE "fetch"
    /\ UNCHANGED <<entry, input, logs, raw_trades, potential_tokens, tx_hashes,
                   decimals_map, maker_decimals, trades, px, markets, warnings>>

\* 4. fetch the receipt of one marked transaction and read its Transfer logs
\* (scanner.rs:288-305); the panic of the reading ends the batch
FetchReceipt ==
    /\ pc = "fetch"
    /\ \E tx_hash \in txs_to_fetch, a \in ReceiptAnswers :
        LET left == txs_to_fetch \ {tx_hash}
            amounts == IF a.ok /\ a.receipt # None
                       THEN AmountMap(a.receipt[1], EmptyMap)
                       ELSE [panic |-> "none"]
        IN  /\ rpc' = Append(rpc, ReceiptEntry(tx_hash, a))
            /\ txs_to_fetch' = left
            /\ receipt_token_map' =
                 IF a.ok /\ a.receipt # None /\ amounts.panic = "none"
                 THEN Insert(receipt_token_map, tx_hash, amounts.map)
                 ELSE receipt_token_map
            /\ pc' = IF amounts.panic # "none" THEN amounts.panic
                     ELSE IF left = {} THEN "maker" ELSE "fetch"
    /\ UNCHANGED <<entry, input, logs, raw_trades, potential_tokens, tx_hashes,
                   decimals_map, maker_decimals, trades, px, markets, warnings>>

\* 5. the decimals of one leg (scanner.rs:314-339, 342-366).
\* The address the leg's resolution probes: the receipt's token for the leg's
\* amount, when the candidate address and that token are both absent from the
\* cache
ProbeTarget(asset_id, amount, tx, map) ==
    IF asset_id = ZeroId \/ AddressOfId(asset_id) \in DOMAIN map \/ tx = None
    THEN None
    ELSE IF tx[1] \notin DOMAIN receipt_token_map THEN None
    ELSE IF amount \notin DOMAIN receipt_token_map[tx[1]] THEN None
    ELSE IF receipt_token_map[tx[1]][amount] \in DOMAIN map THEN None
    ELSE Some(receipt_token_map[tx[1]][amount])

\* the answers of the probe of a leg, if it issues one
LegAnswers(asset_id, amount, tx, map) ==
    IF ProbeTarget(asset_id, amount, tx, map) = None THEN {CallErr}
    ELSE CallAnswers

\* ResolveLeg without the sentinel branch
ResolveLegNoSentinel(asset_id, amount, tx, map, r) ==
    LET done(d) == [dec |-> d, map |-> map, probed |-> None, panic |-> "none"]
    IN  IF AddressOfId(asset_id) \in DOMAIN map
        THEN done(map[AddressOfId(asset_id)])
        ELSE done(DEFAULT_DECIMALS)

\* ResolveLeg probing the receipt's token without looking it up in the cache
ResolveLegAlwaysProbe(asset_id, amount, tx, map, r) ==
    LET done(d) == [dec |-> d, map |-> map, probed |-> None, panic |-> "none"]
    IN  IF asset_id = ZeroId THEN done(SENTINEL_DECIMALS)
        ELSE IF AddressOfId(asset_id) \in DOMAIN map
        THEN done(map[AddressOfId(asset_id)])
        ELSE IF tx = None
        THEN [dec |-> DEFAULT_DECIMALS, map |-> map, probed |-> None,
              panic |-> "panic_unwrap"]
        ELSE IF tx[1] \notin DOMAIN receipt_token_map THEN done(DEFAULT_DECIMALS)
        ELSE IF amount \notin DOMAIN receipt_token_map[tx[1]]
        THEN done(DEFAULT_DECIMALS)
        ELSE LET real_token_addr == receipt_token_map[tx[1]][amount]
                 g == get_decimals(r)
             IN  [dec |-> IF g.val = None THEN DEFAULT_DECIMALS ELSE g.val[1],
                  map |-> IF g.val = None THEN map
                          ELSE Insert(map, real_token_addr, g.val[1]),
                  probed |-> Some(real_token_addr),
                  panic |-> g.panic]

\* ResolveLeg that probes the receipt's token and does not cache the answer
ResolveLegNoCaching(asset_id, amount, tx, map, r) ==
    LET done(d) == [dec |-> d, map |-> map, probed |-> None, panic |-> "none"]
    IN  IF asset_id = ZeroId THEN done(SENTINEL_DECIMALS)
        ELSE IF AddressOfId(asset_id) \in DOMAIN map
        THEN done(map[AddressOfId(asset_id)])
        ELSE IF tx = None
        THEN [dec |-> DEFAULT_DECIMALS, map |-> map, probed |-> None,
              panic |-> "panic_unwrap"]
        ELSE IF tx[1] \notin DOMAIN receipt_token_map THEN done(DEFAULT_DECIMALS)
        ELSE IF amount \notin DOMAIN receipt_token_map[tx[1]]
        THEN done(DEFAULT_DECIMALS)
        ELSE LET real_token_addr == receipt_token_map[tx[1]][amount]
                 g == get_decimals(r)
             IN  IF real_token_addr \in DOMAIN map THEN done(map[real_token_addr])
                 ELSE [dec |-> IF g.val = None THEN DEFAULT_DECIMALS ELSE g.val[1],
                       map |-> map,
                       probed |-> Some(real_token_addr),
                       panic |-> g.panic]

\* the leg's decimals: the sentinel, the cache, or the receipt lookup with at
\* most one probe, answered by r; transaction_hash.unwrap() panics on None
ResolveLeg(asset_id, amount, tx, map, r) ==
    LET done(d) == [dec |-> d, map |-> map, probed |-> None, panic |-> "none"]
    IN  IF asset_id = ZeroId THEN done(SENTINEL_DECIMALS)
        ELSE IF AddressOfId(asset_id) \in DOMAIN map
        THEN done(map[AddressOfId(asset_id)])
        ELSE IF tx = None
        THEN [dec |-> DEFAULT_DECIMALS, map |-> map, probed |-> None,
              panic |-> "panic_unwrap"]
        ELSE IF tx[1] \notin DOMAIN receipt_token_map THEN done(DEFAULT_DECIMALS)
        ELSE IF amount \notin DOMAIN receipt_token_map[tx[1]]
        THEN done(DEFAULT_DECIMALS)
        ELSE LET real_token_addr == receipt_token_map[tx[1]][amount]
                 g == get_decimals(r)
             IN  IF real_token_addr \in DOMAIN map THEN done(map[real_token_addr])
                 ELSE [dec |-> IF g.val = None THEN DEFAULT_DECIMALS ELSE g.val[1],
                       map |-> IF g.val = None THEN map
                               ELSE Insert(map, real_token_addr, g.val[1]),
                       probed |-> Some(real_token_addr),
                       panic |-> g.panic]

Probed(leg, r) ==
    IF leg.probed = None THEN <<>> ELSE <<CallEntry(leg.probed[1], r)>>

\* the maker leg of the next trade
ResolveMaker ==
    /\ pc = "maker"
    /\ raw_trades # <<>>
    /\ LET trade == Head(raw_trades)
       IN  \E r \in LegAnswers(trade.maker_asset_id, trade.maker_amount,
                               trade.log.transaction_hash, decimals_map) :
            LET leg == ResolveLeg(trade.maker_asset_id, trade.maker_amount,
                                  trade.log.transaction_hash, decimals_map, r)
            IN  /\ rpc' = rpc \o Probed(leg, r)
                /\ decimals_map' = leg.map
                /\ maker_decimals' = leg.dec
                /\ pc' = IF leg.panic # "none" THEN leg.panic ELSE "taker"
    /\ UNCHANGED <<entry, input, logs, raw_trades, potential_tokens, tx_hashes,
                   txs_to_fetch, receipt_token_map, trades, px, markets, warnings>>

\* the taker leg of the trade, then parse_final and the push (scanner.rs:368-370)
ResolveTaker ==
    /\ pc = "taker"
    /\ LET trade == Head(raw_trades)
       IN  \E r \in LegAnswers(trade.taker_asset_id, trade.taker_amount,
                               trade.log.transaction_hash, decimals_map) :
            LET leg == ResolveLeg(trade.taker_asset_id, trade.taker_amount,
                                  trade.log.transaction_hash, decimals_map, r)
                parsed == parse_final(trade.log, maker_decimals, leg.dec)
            IN  /\ rpc' = rpc \o Probed(leg, r)
                /\ decimals_map' = leg.map
                /\ IF leg.panic # "none" \/ parsed.panic # "none"
                   THEN /\ pc' = IF leg.panic # "none" THEN leg.panic
                                  ELSE parsed.panic
                        /\ UNCHANGED <<raw_trades, trades>>
                   ELSE /\ trades' = Append(trades, parsed.output)
                        /\ raw_trades' = Tail(raw_trades)
                        /\ pc' = IF Tail(raw_trades) = <<>> THEN "done" ELSE "maker"
    /\ UNCHANGED <<entry, input, logs, potential_tokens, tx_hashes, txs_to_fetch,
                   receipt_token_map, maker_decimals, px, markets, warnings>>

(***************************************************************************)
(* The entry points (scanner.rs:25-46).                                    *)
(***************************************************************************)
\* process_logs(logs) begins
Begin(e, ls) ==
    /\ entry' = e
    /\ input' = ls
    /\ logs' = ls
    /\ pc' = AfterDecode(ls, {})
    /\ UNCHANGED <<raw_trades, potential_tokens, tx_hashes, decimals_map,
                   txs_to_fetch, receipt_token_map, maker_decimals, trades, px, markets, warnings>>

\* the failure of the primary fetch swallowed: Ok with nothing
FailSwallowed(e, call) ==
    /\ entry' = e
    /\ pc' = "done"
    /\ rpc' = Append(rpc, call)
    /\ UNCHANGED <<input, logs, raw_trades, potential_tokens, tx_hashes,
                   decimals_map, txs_to_fetch, receipt_token_map, maker_decimals,
                   trades, px, markets, warnings>>

Fail(e, call) ==
    /\ entry' = e
    /\ pc' = "error"
    /\ rpc' = Append(rpc, call)
    /\ UNCHANGED <<input, logs, raw_trades, potential_tokens, tx_hashes,
                   decimals_map, txs_to_fetch, receipt_token_map, maker_decimals,
                   trades, px, markets, warnings>>

GetLogsEntry(ok) ==
    [op |-> "get_logs", arg |-> ExchangeAddress, res |-> IF ok THEN "ok" ELSE "err"]

FetchEvents ==
    /\ pc = "start"
    /\ \E ls \in GetLogsAnswers :
        /\ rpc' = Append(rpc, GetLogsEntry(TRUE))
        /\ Begin("fetch_events", ls)

FetchEventsFail ==
    /\ pc = "start"
    /\ Fail("fetch_events", GetLogsEntry(FALSE))

KeptByTxFilter(log) == log.address = ExchangeAddress /\ log.topics # <<>>

FetchTxEvents ==
    /\ pc = "start"
    /\ \E tx_hash \in {1, 2} : \E ls \in TxReceiptLogs(tx_hash) :
        /\ rpc' = Append(rpc, [op |-> "receipt", arg |-> tx_hash, res |-> "ok"])
        /\ Begin("fetch_tx_events", SelectSeq(ls, KeptByTxFilter))

FetchTxEventsFail ==
    /\ pc = "start"
    /\ \E tx_hash \in {1, 2}, res \in {"err", "none"} :
        Fail("fetch_tx_events", [op |-> "receipt", arg |-> tx_hash, res |-> res])

Init ==
    /\ pc = "start"
    /\ entry = "none"
    /\ input = <<>>
    /\ logs = <<>>
    /\ raw_trades = <<>>
    /\ potential_tokens = {}
    /\ tx_hashes = {}
    /\ decimals_map = EmptyMap
    /\ txs_to_fetch = {}
    /\ receipt_token_map = EmptyMap
    /\ maker_decimals = DEFAULT_DECIMALS
    /\ trades = <<>>
    /\ rpc = <<>>
    /\ px = [state |-> "unused"]
    /\ markets = <<>>
    /\ warnings = <<>>

Next ==
    \/ FetchEvents
    \/ FetchEventsFail
    \/ FetchTxEvents
    \/ FetchTxEventsFail
    \/ DecodeLog
    \/ ProbeDirect
    \/ MarkTxs
    \/ FetchReceipt
    \/ ResolveMaker
    \/ ResolveTaker

Spec == Init /\ [][Next]_vars

(***************************************************************************)
(* calculate_price on its own: the arguments are drawn from bounded sets   *)
(* and one action applies the function.                                    *)
(***************************************************************************)
AmountExps == {0, 6, 17}

Amounts ==
    {ZeroAmount} \cup { [m |-> m, e |-> e] :
                          m \in { n \in 1..MaxMantissa : n % 10 # 0 },
                          e \in AmountExps }

\* decimals of the collateral, of a token, none, and one format_units rejects
PriceDecimals == {0, 6, 18, 78}

PriceArgs ==
    { a \in [maker_amount : Amounts, maker_decimals : PriceDecimals,
             taker_amount : Amounts, taker_decimals : PriceDecimals] :
        PriceInRange(a.maker_amount, a.maker_decimals,
                     a.taker_amount, a.taker_decimals) }

InitPrice ==
    /\ pc = "start"
    /\ entry = "calculate_price"
    /\ input = <<>>
    /\ logs = <<>>
    /\ raw_trades = <<>>
    /\ potential_tokens = {}
    /\ tx_hashes = {}
    /\ decimals_map = EmptyMap
    /\ txs_to_fetch = {}
    /\ receipt_token_map = EmptyMap
    /\ maker_decimals = DEFAULT_DECIMALS
    /\ trades = <<>>
    /\ rpc = <<>>
    /\ \E a \in PriceArgs : px = [state |-> "called", args |-> a, price |-> <<>>]
    /\ markets = <<>>
    /\ warnings = <<>>

CalcPrice ==
    /\ px.state = "called"
    /\ px' = [px EXCEPT !.state = "returned",
                        !.price = calculate_price(px.args.maker_amount,
                                                  px.args.maker_decimals,
                                                  px.args.taker_amount,
                                                  px.args.taker_decimals)]
    /\ UNCHANGED <<scan_vars, markets, warnings>>

NextPrice == CalcPrice

SpecPrice == InitPrice /\ [][NextPrice]_vars

(***************************************************************************)
(* utils.rs: the identifiers of a market.  A byte string is a sequence of  *)
(* chunks [w, v]: the value v written big-endian on w bytes.  keccak256 is *)
(* an injective function of the bytes it is given; a hash is a 256-bit     *)
(* value like the words [hi, lo].                                          *)
(***************************************************************************)
Chunk(w, v) == [w |-> w, v |-> v]

RECURSIVE ByteLen(_)
ByteLen(bytes) ==
    IF bytes = <<>> THEN 0 ELSE Head(bytes).w + ByteLen(Tail(bytes))

keccak256(bytes) == [keccak |-> bytes]

\* the 256-bit value of an address or of a small integer
AsWord(n) == [hi |-> 0, lo |-> n]

H256Zero == AsWord(0)

AddressToken(a) == [kind |-> "Address", val |-> a]
FixedBytesToken(h) == [kind |-> "FixedBytes", val |-> h]
UintToken(u) == [kind |-> "Uint", val |-> u]

\* ethers::abi::encode_packed: an address takes its 20 bytes, 32 bytes of
\* FixedBytes and a Uint take 32
encode_packed(tokens) ==
    [j \in 1..Len(tokens) |->
        IF tokens[j].kind = "Address" THEN Chunk(20, AsWord(tokens[j].val))
        ELSE Chunk(WORD, tokens[j].val)]

\* ethers::abi::encode of static tokens: one 32-byte word per token, in order,
\* an address left-padded with zeros
encode(tokens) ==
    [j \in 1..Len(tokens) |->
        IF tokens[j].kind = "Address" THEN Chunk(WORD, AsWord(tokens[j].val))
        ELSE Chunk(WORD, tokens[j].val)]

\* the tightly packed preimage
get_condition_id_packed(oracle, question_id, outcome_slot_count) ==
    keccak256(encode_packed(<<AddressToken(oracle), FixedBytesToken(question_id),
                              UintToken(outcome_slot_count)>>))

get_condition_id(oracle, question_id, outcome_slot_count) ==
    keccak256(encode(<<AddressToken(oracle), FixedBytesToken(question_id),
                       UintToken(outcome_slot_count)>>))

get_collection_id(parent_collection_id, condition_id, index_set) ==
    keccak256(encode(<<FixedBytesToken(parent_collection_id),
                       FixedBytesToken(condition_id), UintToken(index_set)>>))

\* get_position_id_packed of scanner_test.rs:24-30
get_position_id_packed(collateral_token, collection_id) ==
    keccak256(encode_packed(<<AddressToken(collateral_token),
                              FixedBytesToken(collection_id)>>))

\* U256::from_big_endian(collection_id.as_bytes()) has the bytes of the hash
get_position_id(collateral_token, collection_id) ==
    keccak256(encode(<<AddressToken(collateral_token), UintToken(collection_id)>>))

(***************************************************************************)
(* The market operations of Scanner (scanner.rs:48-196) and the manual     *)
(* mode of main (main.rs:55-89, 240-286).                                  *)
(***************************************************************************)
CtfAddress == 4        \* consts.rs:11 CTF_ADDRESS
UsdcAddress == 7       \* consts.rs:8 USDC_ADDRESS

\* keccak256(CONDITION_PREPARATION_EVENT_SIGNATURE)
ConditionPreparationTopic == [hi |-> 1, lo |-> 12]

\* format!("{:?}", h) and format!("0x{:x}", h) of an H256: "0x" and its 64
\* hexadecimal digits, kept as the value they are the digits of
FormatHash(h) == [hex64 |-> h]

MISMATCH_WARNING == "Warning: Calculated condition ID mismatch."
MANUAL_WARNING == "Warning: Calculated Condition ID does not match input!"

\* the MarketInfo built from the decoded fields; condition_id is the id
\* reported, token_condition_id the id the two token ids are derived from
MarketInfo(condition_id, question_id, oracle_addr, outcome_slot_count, token_condition_id) ==
    LET collateral_token == UsdcAddress
        parent_collection_id == H256Zero
        collection_id_yes ==
            get_collection_id(parent_collection_id, token_condition_id, U256From(1))
        collection_id_no ==
            get_collection_id(parent_collection_id, token_condition_id, U256From(2))
    IN  [condition_id |-> FormatHash(condition_id),
         question_id |-> FormatHash(question_id),
         oracle |-> format_address(oracle_addr),
         outcome_slot_count |-> outcome_slot_count,
         collateral_token |-> format_address(collateral_token),
         yes_token_id |-> FormatHash(get_position_id(collateral_token, collection_id_yes)),
         no_token_id |-> FormatHash(get_position_id(collateral_token, collection_id_no))]

\* the decoding of one ConditionPreparation log that the three operations
\* share (scanner.rs:58-86, 109-147, 167-192): topics 1, 2 and 3 are indexed
\* without a check here; U256::from_big_endian panics on more than 32 bytes
\* of data and as_u64 on a count of 2^64 or more.  `calculated` is the
\* recomputed condition id, from which the token ids are derived.
DecodeMarketLog(log) ==
    IF Len(log.topics) < 4 THEN [panic |-> "panic_index"]
    ELSE IF Len(log.data) > 1 THEN [panic |-> "panic_slice"]
    ELSE LET condition_id_log == log.topics[2]
             oracle_h256 == log.topics[3]
             question_id == log.topics[4]
             outcome_slot_count == IF log.data = <<>> THEN U256From(0) ELSE log.data[1]
             oracle_addr == AddressOfId(oracle_h256)
             calculated_condition_id ==
                 get_condition_id(oracle_addr, question_id, outcome_slot_count)
         IN  [panic |-> IF FitsU64(outcome_slot_count) THEN "none" ELSE "panic_overflow",
              calculated |-> calculated_condition_id,
              info |-> MarketInfo(condition_id_log, question_id, oracle_addr,
                                  as_u64(outcome_slot_count), calculated_condition_id)]

\* the oracle, the question and the condition id they give with 2 outcomes;
\* an id that is not the hash of anything used here
OracleTopic == [hi |-> 0, lo |-> 5]
QuestionTopic == [hi |-> 2, lo |-> 3]
TrueConditionId == get_condition_id(AddressOfId(OracleTopic), QuestionTopic, U256From(2))
OtherConditionId == [hi |-> 3, lo |-> 4]

MarketLog(topics, data) == MkLog(CtfAddress, topics, data, Some(1))

\* ConditionPreparation logs: the topic is the recomputed id or another one,
\* the count is 2, absent, 2^64 or more, or followed by a second word
FullMarketLogs ==
    { MarketLog(<<ConditionPreparationTopic, TrueConditionId, OracleTopic, QuestionTopic>>,
                <<U256From(2)>>),
      MarketLog(<<ConditionPreparationTopic, OtherConditionId, OracleTopic, QuestionTopic>>,
                <<U256From(2)>>),
      MarketLog(<<ConditionPreparationTopic, TrueConditionId, OracleTopic, QuestionTopic>>,
                <<>>),
      MarketLog(<<ConditionPreparationTopic, TrueConditionId, OracleTopic, QuestionTopic>>,
                <<TwoTo64>>),
      MarketLog(<<ConditionPreparationTopic, TrueConditionId, OracleTopic, QuestionTopic>>,
                <<U256From(2), U256From(2)>>) }

\* ConditionPreparation logs with 3 topics and with 1
ShortMarketLogs ==
    { MarketLog(<<ConditionPreparationTopic, TrueConditionId, OracleTopic>>, <<U256From(2)>>),
      MarketLog(<<ConditionPreparationTopic>>, <<U256From(2)>>) }

\* logs of a receipt that are not ConditionPreparation logs
OtherReceiptLogs ==
    { MkLog(ExchangeAddress, FullTopics, FillData(ZeroId, IdA, Collateral, Tokens), Some(1)),
      MkLog(OtherAddress, <<>>, <<>>, Some(1)) }

MarketLogsAnswers == SeqsUpTo(FullMarketLogs \cup ShortMarketLogs, MaxLogs)

MarketReceiptAnswers ==
    SeqsUpTo(FullMarketLogs \cup ShortMarketLogs \cup OtherReceiptLogs, MaxLogs)

ConditionIds == {TrueConditionId, OtherConditionId}

\* a run of a market operation ends: Ok, or the panic of the task
\* (`input` keeps the logs the node answered with)
Finish(e, call, ls, result, warned, panic) ==
    /\ entry' = e
    /\ rpc' = Append(rpc, call)
    /\ input' = ls
    /\ pc' = IF panic = "none" THEN "done" ELSE panic
    /\ markets' = IF panic = "none" THEN result ELSE <<>>
    /\ warnings' = warnings \o warned
    /\ UNCHANGED <<logs, raw_trades, potential_tokens, tx_hashes, decimals_map,
                   txs_to_fetch, receipt_token_map, maker_decimals, trades, px>>

\* fetch_market_info: the first log whose topic 0 is the event signature and
\* that has 4 topics (scanner.rs:54-87); Ok(None) when there is none
RECURSIVE MarketOfReceipt(_)
MarketOfReceipt(receipt_logs) ==
    IF receipt_logs = <<>> THEN [panic |-> "none", result |-> <<>>]
    ELSE LET log == Head(receipt_logs)
         IN  IF log.topics = <<>> \/ log.topics[1] # ConditionPreparationTopic
             THEN MarketOfReceipt(Tail(receipt_logs))
             ELSE IF Len(log.topics) < 4 THEN MarketOfReceipt(Tail(receipt_logs))
             ELSE LET d == DecodeMarketLog(log)
                  IN  IF d.panic # "none" THEN [panic |-> d.panic, result |-> <<>>]
                      ELSE [panic |-> "none", result |-> <<d.info>>]

\* fetch_market_events: one MarketInfo per log with 4 topics, in order
\* (scanner.rs:164-195)
RECURSIVE MarketsOfLogs(_, _)
MarketsOfLogs(ls, acc) ==
    IF ls = <<>> THEN [panic |-> "none", result |-> acc]
    ELSE LET log == Head(ls)
         IN  IF Len(log.topics) < 4 THEN MarketsOfLogs(Tail(ls), acc)
             ELSE LET d == DecodeMarketLog(log)
                  IN  IF d.panic # "none" THEN [panic |-> d.panic, result |-> <<>>]
                      ELSE MarketsOfLogs(Tail(ls), Append(acc, d.info))

ReceiptOk(tx_hash) == [op |-> "receipt", arg |-> tx_hash, res |-> "ok"]

MarketLogsEntry(ok) ==
    [op |-> "get_logs", arg |-> CtfAddress, res |-> IF ok THEN "ok" ELSE "err"]

\* get_logs with the filter topic1 = condition_id
ByConditionEntry(condition_id, ok) ==
    [op |-> "get_logs", arg |-> CtfAddress, topic1 |-> condition_id,
     res |-> IF ok THEN "ok" ELSE "err"]

\* fetch_market_info(tx_hash) (scanner.rs:48-91)
FetchMarketInfo ==
    /\ pc = "start"
    /\ \E tx_hash \in ConditionIds, ls \in MarketReceiptAnswers :
        LET m == MarketOfReceipt(ls)
        IN  Finish("fetch_market_info", ReceiptOk(tx_hash), ls, m.result, <<>>, m.panic)

FetchMarketInfoFail ==
    /\ pc = "start"
    /\ \E tx_hash \in ConditionIds, res \in {"err", "none"} :
        Fail("fetch_market_info", [op |-> "receipt", arg |-> tx_hash, res |-> res])

\* the body of fetch_market_info_by_condition_id once get_logs answered ls:
\* the first log of the answer, read without a check of its topics; the
\* warning compares the recomputed id with the argument and is printed before
\* the count is cast (scanner.rs:104-149)
MarketByConditionId(e, condition_id, ls) ==
    LET d == DecodeMarketLog(ls[1])
    IN  IF ls = <<>>
        THEN Finish(e, ByConditionEntry(condition_id, TRUE), ls, <<>>, <<>>, "none")
        ELSE IF d.panic \in {"panic_index", "panic_slice"}
        THEN Finish(e, ByConditionEntry(condition_id, TRUE), ls, <<>>, <<>>, d.panic)
        ELSE Finish(e, ByConditionEntry(condition_id, TRUE), ls, <<d.info>>,
                    IF d.calculated # condition_id
                    THEN <<MISMATCH_WARNING>> ELSE <<>>,
                    d.panic)

\* fetch_market_info_by_condition_id(condition_id, from_block)
\* (scanner.rs:93-150)
FetchMarketInfoByConditionId ==
    /\ pc = "start"
    /\ \E condition_id \in ConditionIds, ls \in MarketLogsAnswers :
        MarketByConditionId("fetch_market_info_by_condition_id", condition_id, ls)

FetchMarketInfoByConditionIdFail ==
    /\ pc = "start"
    /\ \E condition_id \in ConditionIds :
        Fail("fetch_market_info_by_condition_id", ByConditionEntry(condition_id, FALSE))

\* fetch_market_events(from_block, to_block) (scanner.rs:152-196)
FetchMarketEvents ==
    /\ pc = "start"
    /\ \E ls \in MarketLogsAnswers :
        LET m == MarketsOfLogs(ls, <<>>)
        IN  Finish("fetch_market_events", MarketLogsEntry(TRUE), ls, m.result, <<>>,
                   m.panic)

FetchMarketEventsFail ==
    /\ pc = "start"
    /\ Fail("fetch_market_events", MarketLogsEntry(FALSE))


\* manual branches that derive the token ids from the recomputed id
ManualInfoRecomputed(e, hash, oracle_addr, question_id, slot_count) ==
    LET calculated_condition_id ==
            get_condition_id(oracle_addr, question_id, U256From(slot_count))
    IN  /\ entry' = e
        /\ pc' = "done"
        /\ warnings' = IF calculated_condition_id # hash
                       THEN Append(warnings, MANUAL_WARNING) ELSE warnings
        /\ markets' = <<MarketInfo(hash, question_id, oracle_addr, slot_count,
                                   calculated_condition_id)>>
        /\ UNCHANGED <<input, logs, raw_trades, potential_tokens, tx_hashes,
                       decimals_map, txs_to_fetch, receipt_token_map,
                       maker_decimals, trades, rpc, px>>

\* what the two manual branches print: the warning on a mismatch, and the
\* MarketInfo derived from the id the user gave (main.rs:62-88, 257-285)
ManualInfo(e, hash, oracle_addr, question_id, slot_count) ==
    LET calculated_condition_id ==
            get_condition_id(oracle_addr, question_id, U256From(slot_count))
    IN  /\ entry' = e
        /\ pc' = "done"
        /\ warnings' = IF calculated_condition_id # hash
                       THEN Append(warnings, MANUAL_WARNING) ELSE warnings
        /\ markets' = <<MarketInfo(hash, question_id, oracle_addr, slot_count, hash)>>
        /\ UNCHANGED <<input, logs, raw_trades, potential_tokens, tx_hashes,
                       decimals_map, txs_to_fetch, receipt_token_map,
                       maker_decimals, trades, rpc, px>>

ManualOracles == {AddressOfId(OracleTopic), AddressOfId(TakerTopic)}

\* main with --condition-id, --question-id and --oracle: slot_count is 2
\* (main.rs:55-89)
ManualMode ==
    /\ pc = "start"
    /\ \E cond_id \in ConditionIds, oracle \in ManualOracles :
        ManualInfo("manual", cond_id, oracle, QuestionTopic, 2)

\* the sub-menu of the interactive mode, offered when fetch_market_info of the
\* hash gave an error or no market (main.rs:212-223)
SubMenuOffered ==
    /\ entry = "fetch_market_info"
    /\ pc = "error" \/ (pc = "done" /\ markets = <<>>)

\* its scan branch, the default: the hash is looked up as a condition id
\* (main.rs:224-239)
InteractiveScan ==
    /\ SubMenuOffered
    /\ \E ls \in MarketLogsAnswers :
        MarketByConditionId("interactive_scan", rpc[1].arg, ls)

\* get_logs of the scan branch fails: "Error decoding market:" is printed
InteractiveScanFail ==
    /\ SubMenuOffered
    /\ Fail("interactive_scan", ByConditionEntry(rpc[1].arg, FALSE))

\* its manual branch with an oracle and a question id that parse
\* (main.rs:240-286)
InteractiveManual ==
    /\ SubMenuOffered
    /\ \E oracle \in ManualOracles, slot_count \in {2, 3} :
        ManualInfo("interactive_manual", rpc[1].arg, oracle, QuestionTopic, slot_count)

\* its manual branch with an oracle or a question id that does not parse:
\* "Invalid Oracle or Question ID format." is printed and no MarketInfo
\* (main.rs:287-289)
InteractiveManualInvalid ==
    /\ SubMenuOffered
    /\ entry' = "interactive_manual"
    /\ pc' = "done"
    /\ UNCHANGED <<input, logs, raw_trades, potential_tokens, tx_hashes,
                   decimals_map, txs_to_fetch, receipt_token_map, maker_decimals,
                   trades, rpc, px, markets, warnings>>

NextMarket ==
    \/ FetchMarketInfo
    \/ FetchMarketInfoFail
    \/ FetchMarketInfoByConditionId
    \/ FetchMarketInfoByConditionIdFail
    \/ FetchMarketEvents
    \/ FetchMarketEventsFail
    \/ ManualMode
    \/ InteractiveScan
    \/ InteractiveScanFail
    \/ InteractiveManual
    \/ InteractiveManualInvalid

SpecMarket == Init /\ [][NextMarket]_vars

\* one run of any entry point
NextAll ==
    \/ Next
    \/ NextMarket

SpecAll == Init /\ [][NextAll]_vars

(***************************************************************************)
(* The three identifier functions on their own: the arguments are drawn    *)
(* from bounded sets and one action per function applies it.               *)
(***************************************************************************)
IdAddresses == {0, AddressOfId(OracleTopic), UsdcAddress}

IdHashes == {H256Zero, QuestionTopic, OtherConditionId, TrueConditionId}

IdUints == {U256From(0), U256From(1), U256From(2), TwoTo64}

IdCalls ==
    { [state |-> "id_called", fn |-> "get_condition_id",
        args |-> [oracle |-> a, question_id |-> h, outcome_slot_count |-> u]] :
        a \in IdAddresses, h \in IdHashes, u \in IdUints }
    \cup { [state |-> "id_called", fn |-> "get_collection_id",
             args |-> [parent_collection_id |-> p, condition_id |-> h, index_set |-> u]] :
             p \in IdHashes, h \in IdHashes, u \in IdUints }
    \cup { [state |-> "id_called", fn |-> "get_position_id",
             args |-> [collateral_token |-> a, collection_id |-> h]] :
             a \in IdAddresses, h \in IdHashes }

InitIds ==
    /\ pc = "start"
    /\ entry = "identifiers"
    /\ input = <<>>
    /\ logs = <<>>
    /\ raw_trades = <<>>
    /\ potential_tokens = {}
    /\ tx_hashes = {}
    /\ decimals_map = EmptyMap
    /\ txs_to_fetch = {}
    /\ receipt_token_map = EmptyMap
    /\ maker_decimals = DEFAULT_DECIMALS
    /\ trades = <<>>
    /\ rpc = <<>>
    /\ px \in IdCalls
    /\ markets = <<>>
    /\ warnings = <<>>

IdReturn(id) ==
    /\ px' = [state |-> "id_returned", fn |-> px.fn, args |-> px.args, id |-> id]
    /\ UNCHANGED <<scan_vars, markets, warnings>>

CalcConditionId ==
    /\ px.state = "id_called"
    /\ px.fn = "get_condition_id"
    /\ IdReturn(get_condition_id(px.args.oracle, px.args.question_id,
                                 px.args.outcome_slot_count))

CalcCollectionId ==
    /\ px.state = "id_called"
    /\ px.fn = "get_collection_id"
    /\ IdReturn(get_collection_id(px.args.parent_collection_id, px.args.condition_id,
                                  px.args.index_set))

CalcPositionId ==
    /\ px.state = "id_called"
    /\ px.fn = "get_position_id"
    /\ IdReturn(get_position_id(px.args.collateral_token, px.args.collection_id))

NextIds ==
    \/ CalcConditionId
    \/ CalcCollectionId
    \/ CalcPositionId

SpecIds == InitIds /\ [][NextIds]_vars

(***************************************************************************)
(* Properties.  The logs the first pass keeps are those with at least 128  *)
(* bytes of data; the j-th record pushed comes from the j-th of them.      *)
(***************************************************************************)
IsKept(log) == 32 * Len(log.data) >= 128

Kept == SelectSeq(input, IsKept)

Panicked == pc \in {"panic_index", "panic_unwrap", "panic_slice", "panic_overflow"}

CallCount(history, addr) ==
    Cardinality({ j \in 1..Len(history) :
                    history[j].op = "call" /\ history[j].arg = addr })

Calls(history) == { j \in 1..Len(history) : history[j].op = "call" }

\* the receipt fetches of process_logs: every one but the primary fetch of
\* fetch_tx_events, which is the first request
ReceiptFetches(history) ==
    { j \in 2..Len(history) : history[j].op = "receipt" }

TypeOK ==
    /\ Len(trades) <= Len(Kept)
    /\ pc \in {"decode", "start", "error"} \/ Len(trades) + Len(raw_trades) = Len(Kept)
    /\ \A j \in 1..Len(trades) :
         /\ trades[j].tx_hash = FormatH256(OptDefault(Kept[j].transaction_hash, 0))
         /\ trades[j].maker_amount_filled = u256_to_string(Kept[j].data[3])
         /\ trades[j].taker_amount_filled = u256_to_string(Kept[j].data[4])
         /\ IF Kept[j].data[1] # ZeroId /\ Kept[j].data[2] = ZeroId
            THEN PriceInRange(Kept[j].data[4], trades[j].taker_decimals,
                              Kept[j].data[3], trades[j].maker_decimals)
            ELSE PriceInRange(Kept[j].data[3], trades[j].maker_decimals,
                              Kept[j].data[4], trades[j].taker_decimals)

\* C1: in every record returned, a leg whose asset id is 0 has decimals 6,
\* whatever the probes and the receipt fetches of the batch answered.
C1_SentinelDecimals ==
    \A j \in 1..Len(trades) :
        /\ Kept[j].data[1] = ZeroId => trades[j].maker_decimals = 6
        /\ Kept[j].data[2] = ZeroId => trades[j].taker_decimals = 6

\* a finished batch with a zero leg at 6 decimals, in which a probe failed and
\* a receipt fetch of process_logs failed
C1_Witness ==
    /\ pc = "done"
    /\ \E j \in 1..Len(trades) :
         Kept[j].data[1] = ZeroId /\ trades[j].maker_decimals = 6
    /\ \E j \in Calls(rpc) : rpc[j].res # "ok"
    /\ \E j \in ReceiptFetches(rpc) : rpc[j].res # "ok"

\* C2: once an address has an entry in the decimals cache, no step of the
\* batch issues another decimals() probe of that address.
C2_NoProbeOnceCached ==
    [][\A a \in DOMAIN decimals_map : CallCount(rpc', a) = CallCount(rpc, a)]_vars

\* a finished batch of two trades whose taker legs (candidate address 2, not
\* cached) were both resolved through the receipts to one token, probed once
C2_Witness ==
    /\ pc = "done"
    /\ Len(trades) = 2
    /\ 2 \notin DOMAIN decimals_map
    /\ \E a \in DOMAIN decimals_map :
         /\ CallCount(rpc, a) = 1
         /\ \A j \in 1..2 :
              /\ Kept[j].data[2] = IdB
              /\ Kept[j].data[4] = Tokens
              /\ Kept[j].transaction_hash # None
              /\ Kept[j].transaction_hash[1] \in DOMAIN receipt_token_map
              /\ Tokens \in DOMAIN receipt_token_map[Kept[j].transaction_hash[1]]
              /\ receipt_token_map[Kept[j].transaction_hash[1]][Tokens] = a
              /\ trades[j].taker_decimals = decimals_map[a]

CandidatesOf(ls) ==
    UNION { {id.lo : id \in {ls[j].data[1], ls[j].data[2]} \ {ZeroId}} :
              j \in 1..Len(ls) }

TxsOf(ls) ==
    { ls[j].transaction_hash[1] :
        j \in { n \in 1..Len(ls) : ls[n].transaction_hash # None } }

ReceiptTokens ==
    UNION { { receipt_token_map[t][v] : v \in DOMAIN receipt_token_map[t] } :
              t \in DOMAIN receipt_token_map }

\* C3: a log with fewer than 128 bytes of data contributes no RawTrade, no
\* record, no candidate address, no probe and no receipt fetch; the batch
\* returns one record per other log, and a batch of such logs alone never
\* aborts.
C3_ShortLogIgnored ==
    /\ \A j \in 1..Len(raw_trades) : IsKept(raw_trades[j].log)
    /\ Len(trades) <= Len(Kept)
    /\ potential_tokens \subseteq CandidatesOf(Kept)
    /\ tx_hashes \subseteq TxsOf(Kept)
    /\ \A j \in Calls(rpc) : rpc[j].arg \in CandidatesOf(Kept) \cup ReceiptTokens
    /\ \A j \in ReceiptFetches(rpc) : rpc[j].arg \in TxsOf(Kept)
    /\ pc = "done" => Len(trades) = Len(Kept)
    /\ Kept = <<>> => ~Panicked

\* a finished batch of a short log followed by a well-formed log, with the
\* one record of the latter
C3_Witness ==
    /\ pc = "done"
    /\ Len(input) = 2
    /\ ~IsKept(input[1])
    /\ input[1].data # <<>>
    /\ IsKept(input[2])
    /\ Len(trades) = 1

FourTopics(log) == Len(log.topics) >= 4

\* C4: a kept log with fewer than 4 topics is skipped on its own: the batch is
\* never aborted by the read of topics 2 and 3, and the batch returns the
\* records of the other logs.
C4_FewTopicsSkipped ==
    /\ pc # "panic_index"
    /\ pc = "done" => Len(trades) = Len(SelectSeq(Kept, FourTopics))

\* a decimals() answer get_decimals turns into a value: 32 bytes holding an
\* integer below 2^32
Usable(ret) == ret.ok /\ ret.len = WORD /\ ret.hi = 0

\* the address got its cache entry from a direct probe: a usable answer to a
\* call issued before the first receipt fetch of process_logs
ResolvedDirectly(addr) ==
    \E j \in Calls(rpc) :
        /\ \A f \in ReceiptFetches(rpc) : j < f
        /\ rpc[j].arg = addr
        /\ Usable(rpc[j].ret)

\* the receipt lookup of a leg finds no cached token: the transaction has no
\* receipt map, or the map has no transfer of the amount, or the address the
\* amount maps to has no decimals in the cache
NoReceiptResolution(log, amount) ==
    \/ log.transaction_hash = None
    \/ log.transaction_hash[1] \notin DOMAIN receipt_token_map
    \/ amount \notin DOMAIN receipt_token_map[log.transaction_hash[1]]
    \/ receipt_token_map[log.transaction_hash[1]][amount] \notin DOMAIN decimals_map

\* a leg that no phase resolved: its candidate address got no cache entry
\* from the direct probes and its receipt lookup resolved nothing
Unresolved(log, asset_id, amount) ==
    /\ asset_id # ZeroId
    /\ ~ResolvedDirectly(asset_id.lo)
    /\ NoReceiptResolution(log, amount)

\* C5: in every record, a leg with a non-zero asset id whose candidate address
\* was not cached after the direct probes and that the receipt lookup of the
\* leg did not resolve has decimals 18.
C5_UnresolvedDefault ==
    \A j \in 1..Len(trades) :
        /\ Unresolved(Kept[j], Kept[j].data[1], Kept[j].data[3])
             => trades[j].maker_decimals = DEFAULT_DECIMALS
        /\ Unresolved(Kept[j], Kept[j].data[2], Kept[j].data[4])
             => trades[j].taker_decimals = DEFAULT_DECIMALS

\* C6: a record's side is BUY exactly when the maker asset id of its log is 0,
\* and SELL otherwise (both ids non-zero: SELL, both zero: BUY).
C6_SideByMakerAsset ==
    \A j \in 1..Len(trades) :
        /\ trades[j].side \in {"BUY", "SELL"}
        /\ trades[j].side = "BUY" <=> Kept[j].data[1] = ZeroId

\* a finished batch with a BUY whose two ids are zero and a SELL whose two ids
\* are non-zero
C6_Witness ==
    /\ pc = "done"
    /\ \E i, j \in 1..Len(trades) :
         /\ Kept[i].data[1] = ZeroId /\ Kept[i].data[2] = ZeroId
         /\ trades[i].side = "BUY"
         /\ Kept[j].data[1] # ZeroId /\ Kept[j].data[2] # ZeroId
         /\ trades[j].side = "SELL"

\* the price of maker over taker and of taker over maker for the j-th record
MakerOverTaker(j) ==
    calculate_price(Kept[j].data[3], trades[j].maker_decimals,
                    Kept[j].data[4], trades[j].taker_decimals)

TakerOverMaker(j) ==
    calculate_price(Kept[j].data[4], trades[j].taker_decimals,
                    Kept[j].data[3], trades[j].maker_decimals)

TakerOverMakerInRange(j) ==
    PriceInRange(Kept[j].data[4], trades[j].taker_decimals,
                 Kept[j].data[3], trades[j].maker_decimals)

\* C7 as stated: the price of a BUY is the maker amount over the taker amount
\* and the price of every SELL, the one with two non-zero ids included, is the
\* taker amount over the maker amount.
C7_SellIsTakerOverMaker ==
    \A j \in 1..Len(trades) :
        /\ Kept[j].data[1] = ZeroId => trades[j].price = MakerOverTaker(j)
        /\ Kept[j].data[1] # ZeroId /\ TakerOverMakerInRange(j)
             => trades[j].price = TakerOverMaker(j)

\* C7 amended: the price is the maker amount over the taker amount when the
\* maker asset id is 0, the taker amount over the maker amount when only the
\* taker asset id is 0, and the maker amount over the taker amount, as for a
\* BUY, when both ids are non-zero.
C7_PriceByShape ==
    \A j \in 1..Len(trades) :
        /\ Kept[j].data[1] = ZeroId => trades[j].price = MakerOverTaker(j)
        /\ Kept[j].data[1] # ZeroId /\ Kept[j].data[2] = ZeroId
             => trades[j].price = TakerOverMaker(j)
        /\ Kept[j].data[1] # ZeroId /\ Kept[j].data[2] # ZeroId
             => trades[j].price = MakerOverTaker(j)

\* a finished batch with a BUY priced maker over taker and a record of two
\* non-zero ids priced maker over taker where taker over maker is another
\* number
C7_Witness ==
    /\ pc = "done"
    /\ \E j \in 1..Len(trades) :
         /\ Kept[j].data[1] # ZeroId /\ Kept[j].data[2] # ZeroId
         /\ TakerOverMakerInRange(j)
         /\ trades[j].price = MakerOverTaker(j)
         /\ trades[j].price # TakerOverMaker(j)
    /\ \E j \in 1..Len(trades) :
         /\ Kept[j].data[1] = ZeroId
         /\ trades[j].price = MakerOverTaker(j)

Digits == {"0", "1", "2", "3", "4", "5", "6", "7", "8", "9"}

\* digits, a point, digits: no "NaN", no "inf", no sign, no empty string
IsNumeral(str) ==
    \E p \in 2..(Len(str) - 1) :
        /\ str[p] = "."
        /\ \A n \in (1..Len(str)) \ {p} : str[n] \in Digits

\* C8: calculate_price returns "0.0" whenever the taker (denominator) amount
\* is zero in its human unit, that is the amount is 0 or format_units rejects
\* the decimals; and whatever the amounts and the decimals, it returns a
\* numeral, never NaN, an infinity or nothing.
C8_ZeroDivisor ==
    px.state = "returned" =>
        /\ (px.args.taker_amount = ZeroAmount \/ px.args.taker_decimals >= 78)
             => px.price = <<"0", ".", "0">>
        /\ IsNumeral(px.price)

\* calculate_price has returned "0.0" for a non-zero amount over a zero one
C8_Witness ==
    /\ px.state = "returned"
    /\ px.args.maker_amount # ZeroAmount
    /\ px.args.maker_decimals = 6
    /\ px.args.taker_amount = ZeroAmount
    /\ px.price = <<"0", ".", "0">>

\* the price string as a number of millionths
Millionths(str) ==
    DigitsToInt(SubSeq(str, 1, Len(str) - 7) \o SubSeq(str, Len(str) - 5, Len(str)))

\* p is num / den rounded to a nearest integer
IsNearest(p, num, den) ==
    \/ p = num \div den /\ 2 * (num % den) <= den
    \/ p = (num \div den) + 1 /\ 2 * (num % den) >= den

\* C9: when the divisor is not zero, the price has exactly 6 fractional digits
\* and is the quotient of the two human amounts (amount / 10^decimals, and 0
\* for a maker amount format_units rejects) to the nearest millionth;
\* 1,000,000 at 6 decimals over 500,000,000,000,000,000 at 18 is "2.000000".
C9_SixDigitQuotient ==
    LET a == px.args
        k == (a.maker_amount.e - a.maker_decimals)
               - (a.taker_amount.e - a.taker_decimals) + 6
    IN  px.state = "returned"
          /\ a.taker_amount # ZeroAmount /\ a.taker_decimals < 78 =>
            /\ IsNumeral(px.price)
            /\ Len(px.price) >= 8
            /\ px.price[Len(px.price) - 6] = "."
            /\ IF a.maker_amount = ZeroAmount \/ a.maker_decimals >= 78
               THEN Millionths(px.price) = 0
               ELSE IF k >= 0
               THEN IsNearest(Millionths(px.price),
                              a.maker_amount.m * Pow10(k), a.taker_amount.m)
               ELSE IF -k > Len(DecDigits(a.maker_amount.m))
               THEN Millionths(px.price) = 0
               ELSE IsNearest(Millionths(px.price),
                              a.maker_amount.m, a.taker_amount.m * Pow10(-k))
            /\ (a = [maker_amount |-> Collateral, maker_decimals |-> 6,
                     taker_amount |-> Tokens, taker_decimals |-> 18])
                 => px.price = <<"2", ".", "0", "0", "0", "0", "0", "0">>

\* calculate_price has returned "2.000000" for 1,000,000 at 6 decimals over
\* 500,000,000,000,000,000 at 18
C9_Witness ==
    /\ px.state = "returned"
    /\ px.args = [maker_amount |-> [m |-> 1, e |-> 6], maker_decimals |-> 6,
                  taker_amount |-> [m |-> 5, e |-> 17], taker_decimals |-> 18]
    /\ px.price = <<"2", ".", "0", "0", "0", "0", "0", "0">>

\* C10: the token_id of a record is the hexadecimal form of the taker asset id
\* when only the taker id is non-zero, of the maker asset id when only the
\* maker id is non-zero or both are, and of 0 when both are zero.
C10_TokenId ==
    \A j \in 1..Len(trades) :
        LET maker_asset_id == Kept[j].data[1]
            taker_asset_id == Kept[j].data[2]
        IN  /\ maker_asset_id = ZeroId /\ taker_asset_id # ZeroId
                 => trades[j].token_id = FormatHexU256(taker_asset_id)
            /\ maker_asset_id # ZeroId
                 => trades[j].token_id = FormatHexU256(maker_asset_id)
            /\ maker_asset_id = ZeroId /\ taker_asset_id = ZeroId
                 => trades[j].token_id = <<"0", "x", "0">>

\* a finished batch with a record of two different non-zero ids whose
\* token_id is the maker id, and a record whose token_id is its taker id
C10_Witness ==
    /\ pc = "done"
    /\ \E i, j \in 1..Len(trades) :
         /\ Kept[i].data[1] = IdA /\ Kept[i].data[2] = IdB
         /\ trades[i].token_id = <<"0", "x", "1">>
         /\ Kept[j].data[1] = ZeroId /\ Kept[j].data[2] # ZeroId
         /\ trades[j].token_id = FormatHexU256(Kept[j].data[2])

\* C11: in every record, the maker_asset_id and the taker_asset_id of a leg
\* whose asset id is 0 are the string "0", whatever the other leg is.
C11_ZeroIdDisplayed ==
    \A j \in 1..Len(trades) :
        /\ Kept[j].data[1] = ZeroId => trades[j].maker_asset_id = <<"0">>
        /\ Kept[j].data[2] = ZeroId => trades[j].taker_asset_id = <<"0">>

\* C12: a decimals() probe that fails or returns fewer than 32 bytes is never
\* propagated: a batch of logs with 4 topics in which every probe issued so
\* far failed or was short has not aborted or returned an error, and it ends
\* with one record per kept log.
C12_FailedProbeSwallowed ==
    (/\ Calls(rpc) # {}
     /\ \A j \in Calls(rpc) : rpc[j].res \in {"err", "short"}
     /\ \A j \in 1..Len(Kept) : FourTopics(Kept[j]))
        => /\ ~Panicked
           /\ pc # "error"
           /\ pc = "done" => Len(trades) = Len(Kept)

\* the branches of the interactive sub-menu, which run after fetch_market_info
\* has returned
InteractiveEntries == {"interactive_scan", "interactive_manual"}

\* C13: when the primary fetch of fetch_events, fetch_market_events (get_logs),
\* fetch_tx_events or fetch_market_info (the receipt: an error or no receipt)
\* fails, the operation returns an error, no record and no MarketInfo, and
\* that fetch is the only RPC request it issued: a later request is the one
\* of the scan branch that the interactive mode runs next.
C13_PrimaryFetchFatal ==
    (rpc # <<>> /\ rpc[1].res # "ok")
        => /\ trades = <<>>
           /\ entry \notin InteractiveEntries =>
                  /\ Len(rpc) = 1
                  /\ pc = "error"
                  /\ markets = <<>>
           /\ entry \in InteractiveEntries =>
                  /\ Len(rpc) <= 2
                  /\ \A j \in 2..Len(rpc) :
                         entry = "interactive_scan" /\ rpc[j].op = "get_logs"

\* fetch_tx_events has returned an error after a receipt fetch that found no
\* receipt
C13_Witness ==
    /\ entry = "fetch_tx_events"
    /\ pc = "error"
    /\ Len(rpc) = 1
    /\ rpc[1].op = "receipt"
    /\ rpc[1].res = "none"
    /\ trades = <<>>


\* the values the ERC-20 Transfer logs of a receipt carry
TransferValues(receipt_logs) ==
    { TransferValue(receipt_logs[j].data) :
        j \in { k \in 1..Len(receipt_logs) : IsTransfer(receipt_logs[k]) } }

\* the address of the last ERC-20 Transfer log of a receipt that carries value
LastTransferAddress(receipt_logs, value) ==
    LET at == { k \in 1..Len(receipt_logs) :
                  /\ IsTransfer(receipt_logs[k])
                  /\ TransferValue(receipt_logs[k].data) = value }
        last == CHOOSE k \in at : \A other \in at : other <= k
    IN  receipt_logs[last].address

\* the values that two ERC-20 Transfer logs of a receipt carry, each log with
\* at most 32 bytes of data
RepeatedValues(receipt_logs) ==
    { TransferValue(receipt_logs[j].data) :
        j \in { n \in 1..Len(receipt_logs) :
                  /\ IsTransfer(receipt_logs[n])
                  /\ Len(receipt_logs[n].data) <= 1
                  /\ \E k \in 1..Len(receipt_logs) :
                         /\ k # n
                         /\ IsTransfer(receipt_logs[k])
                         /\ receipt_logs[k].data = receipt_logs[n].data } }

\* C14: when a fetched receipt holds two ERC-20 Transfer logs (three topics)
\* of the same value, the map of its transaction has an entry for that value,
\* and the entry is the address of the last such log with that value in
\* receipt log order, whatever the order in which the receipts were fetched.
C14_LastTransferWins ==
    \A j \in ReceiptFetches(rpc) :
        rpc[j].res = "ok" =>
            LET tx == rpc[j].arg
                receipt_logs == rpc[j].logs
            IN  \A value \in RepeatedValues(receipt_logs) :
                    /\ tx \in DOMAIN receipt_token_map
                    /\ value \in DOMAIN receipt_token_map[tx]
                    /\ receipt_token_map[tx][value] =
                           LastTransferAddress(receipt_logs, value)


\* the two token ids of a condition id, as MarketInfo shows them
TokenIdsOf(condition_id) ==
    LET yes == get_collection_id(H256Zero, condition_id, U256From(1))
        no == get_collection_id(H256Zero, condition_id, U256From(2))
    IN  [yes |-> FormatHash(get_position_id(UsdcAddress, yes)),
         no |-> FormatHash(get_position_id(UsdcAddress, no))]

\* the condition id recomputed from the oracle, the question and the count of
\* a ConditionPreparation log
RecomputedOf(log) ==
    get_condition_id(AddressOfId(log.topics[3]), log.topics[4],
                     IF log.data = <<>> THEN U256From(0) ELSE log.data[1])

IsPreparation(log) ==
    /\ Len(log.topics) >= 4
    /\ log.topics[1] = ConditionPreparationTopic

\* the logs a finished scan operation decoded, in the order of its MarketInfo
DecodedLogs ==
    IF entry = "fetch_market_info" THEN SelectSeq(input, IsPreparation)
    ELSE IF entry = "fetch_market_events" THEN SelectSeq(input, FourTopics)
    ELSE input

\* interactive_scan is fetch_market_info_by_condition_id run by the sub-menu
ScanEntries ==
    {"fetch_market_info", "fetch_market_info_by_condition_id", "fetch_market_events",
     "interactive_scan"}

ManualEntries == {"manual", "interactive_manual"}

\* the condition id the user gave to a manual branch
SuppliedId ==
    IF entry = "interactive_manual" THEN rpc[1].arg
    ELSE markets[1].condition_id.hex64

\* C15: a manual branch (the CLI arguments, the interactive manual branch)
\* derives yes_token_id and no_token_id from the condition id the user gave,
\* and a scan operation (fetch_market_info, fetch_market_info_by_condition_id,
\* fetch_market_events) from the id recomputed from the log, also when the
\* recomputed id differs from the supplied or logged one.
C15_TrustPolicy ==
    /\ (entry \in ManualEntries /\ pc = "done") =>
           /\ Len(markets) <= 1
           /\ entry = "manual" => markets # <<>>
           /\ \A j \in 1..Len(markets) :
                  /\ markets[j].condition_id = FormatHash(SuppliedId)
                  /\ markets[j].yes_token_id = TokenIdsOf(SuppliedId).yes
                  /\ markets[j].no_token_id = TokenIdsOf(SuppliedId).no
    /\ (entry \in ScanEntries /\ pc = "done") =>
           \A j \in 1..Len(markets) :
               /\ j <= Len(DecodedLogs)
               /\ markets[j].yes_token_id = TokenIdsOf(RecomputedOf(DecodedLogs[j])).yes
               /\ markets[j].no_token_id = TokenIdsOf(RecomputedOf(DecodedLogs[j])).no

\* the interactive manual branch ran with an id that is not the recomputed
\* one and has printed its warning
C15_Witness ==
    /\ entry = "interactive_manual"
    /\ pc = "done"
    /\ warnings = <<MANUAL_WARNING>>
    /\ markets[1].yes_token_id = TokenIdsOf(OtherConditionId).yes
    /\ markets[1].yes_token_id # TokenIdsOf(TrueConditionId).yes

\* fetch_market_events decoded a log whose topic 1 is not the recomputed id
C15_ScanWitness ==
    /\ entry = "fetch_market_events"
    /\ pc = "done"
    /\ Len(markets) = 2
    /\ DecodedLogs[2].topics[2] # RecomputedOf(DecodedLogs[2])
    /\ markets[2].yes_token_id # TokenIdsOf(DecodedLogs[2].topics[2]).yes


\* C16: every scan operation that decoded a ConditionPreparation log whose
\* topic 1 is not the recomputed condition id has emitted a warning and still
\* returned the MarketInfo of that log.
C16_MismatchWarned ==
    (entry \in ScanEntries /\ pc = "done") =>
        \A j \in 1..Len(markets) :
            DecodedLogs[j].topics[2] # RecomputedOf(DecodedLogs[j]) =>
                \E w \in 1..Len(warnings) : warnings[w] = MISMATCH_WARNING


\* C17: no scan operation aborts on a ConditionPreparation log with fewer
\* than 4 topics, and none returns a MarketInfo for such a log: a finished
\* operation returns at most one MarketInfo per log with 4 topics.
C17_ShortMarketLogSkipped ==
    entry \in ScanEntries =>
        /\ pc # "panic_index"
        /\ pc = "done" => Len(markets) <= Len(SelectSeq(input, FourTopics))


\* C18: within one batch a decimals() probe or a receipt fetch that failed or
\* returned nothing usable is never followed by a request of the same kind
\* with the same argument.
C18_NoRetry ==
    \A j, k \in 1..Len(rpc) :
        (/\ j < k
         /\ rpc[j].op \in {"call", "receipt"}
         /\ rpc[j].op = rpc[k].op
         /\ rpc[j].arg = rpc[k].arg)
            => rpc[j].res = "ok"


\* the addresses probed so far
ProbedAddrs(history) == { history[j].arg : j \in Calls(history) }

\* C19: every step of a run issues at most one request.  A direct probe is
\* issued when every log of the batch has been decoded and the candidates are
\* all collected; a receipt fetch when every candidate has been probed; a
\* resolve-and-cache probe when every marked receipt has been fetched.
\* Requests are issued in no other phase.
C19_PhasesSequential ==
    [][ rpc' # rpc =>
          LET request == rpc'[Len(rpc')]
          IN  /\ rpc' = Append(rpc, request)
              /\ request.op = "call" =>
                     \/ /\ pc = "probe"
                        /\ logs = <<>>
                        /\ Len(raw_trades) = Len(Kept)
                        /\ potential_tokens \cup ProbedAddrs(rpc) = CandidatesOf(Kept)
                        /\ ReceiptFetches(rpc) = {}
                     \/ /\ pc \in {"maker", "taker"}
                        /\ logs = <<>>
                        /\ potential_tokens = {}
                        /\ txs_to_fetch = {}
              /\ (request.op = "receipt" /\ pc # "start") =>
                     /\ pc = "fetch"
                     /\ logs = <<>>
                     /\ potential_tokens = {}
                     /\ CandidatesOf(Kept) \subseteq ProbedAddrs(rpc)
              /\ request.op = "get_logs" => pc = "start"
      ]_vars

\* a run went through the three phases: a direct probe, then a receipt fetch,
\* then a resolve-and-cache probe, and returned its records
C19_Witness ==
    /\ pc = "done"
    /\ trades # <<>>
    /\ \E i, j, k \in 2..Len(rpc) :
        /\ i < j
        /\ j < k
        /\ rpc[i].op = "call"
        /\ rpc[j].op = "receipt"
        /\ rpc[k].op = "call"


\* the value v on the 32 bytes of one ABI slot, left-padded with zeros
Slot(v) == [w |-> 32, v |-> v]

\* the tightly packed bytes of an address and of 32-byte values
Packed(address, words) ==
    <<[w |-> 20, v |-> AsWord(address)]>>
        \o [j \in 1..Len(words) |-> [w |-> 32, v |-> words[j]]]

\* C20: the three identifiers are the hash of one 32-byte slot per argument,
\* in argument order: 96 bytes for get_condition_id (the oracle left-padded)
\* and for get_collection_id, 64 bytes for get_position_id (the collateral
\* left-padded, the collection id as a 32-byte integer); none is the hash of
\* the tightly packed bytes.
C20_WordAligned ==
    px.state = "id_returned" =>
        LET a == px.args
        IN  /\ px.fn = "get_condition_id" =>
                /\ px.id = keccak256(<<Slot(AsWord(a.oracle)), Slot(a.question_id),
                                         Slot(a.outcome_slot_count)>>)
                /\ ByteLen(px.id.keccak) = 96
                /\ px.id # keccak256(Packed(a.oracle,
                                            <<a.question_id, a.outcome_slot_count>>))
            /\ px.fn = "get_collection_id" =>
                /\ px.id = keccak256(<<Slot(a.parent_collection_id), Slot(a.condition_id),
                                         Slot(a.index_set)>>)
                /\ ByteLen(px.id.keccak) = 96
            /\ px.fn = "get_position_id" =>
                /\ px.id = keccak256(<<Slot(AsWord(a.collateral_token)),
                                         Slot(a.collection_id)>>)
                /\ ByteLen(px.id.keccak) = 64
                /\ px.id # keccak256(Packed(a.collateral_token, <<a.collection_id>>))

\* get_position_id returned the id of the collateral token and a collection
C20_Witness ==
    /\ px.state = "id_returned"
    /\ px.fn = "get_position_id"
    /\ px.args.collateral_token = UsdcAddress
    /\ px.args.collection_id = TrueConditionId
    /\ ByteLen(px.id.keccak) = 64


\* the transactions of the decoded logs that have a non-zero asset id whose
\* candidate address is absent from the cache
NeededTxs(ls, map) ==
    { ls[j].transaction_hash[1] :
        j \in { n \in 1..Len(ls) :
                  /\ ls[n].transaction_hash # None
                  /\ \E id \in {ls[n].data[1], ls[n].data[2]} \ {ZeroId} :
                         id.lo \notin DOMAIN map } }

\* the transactions whose receipt process_logs has fetched
FetchedTxs(history) == { history[j].arg : j \in ReceiptFetches(history) }

\* C21: the marking pass marks exactly the transactions that have a decoded
\* trade with a non-zero asset id whose candidate address the direct probes
\* left out of the cache, and the receipt phase runs iff there is one; during
\* the receipt phase the fetched and the still marked transactions are
\* exactly those, a receipt is never fetched twice, and the phase ends only
\* when every marked receipt has been fetched.
C21_ReceiptIffUnresolved ==
    [][ /\ (pc = "mark" /\ ~Panicked') =>
               /\ txs_to_fetch' = NeededTxs(Kept, decimals_map)
               /\ pc' = "fetch" <=> NeededTxs(Kept, decimals_map) # {}
               /\ rpc' = rpc
        /\ pc = "fetch" =>
               /\ FetchedTxs(rpc') \cup txs_to_fetch' = NeededTxs(Kept, decimals_map)
               /\ FetchedTxs(rpc') \cap txs_to_fetch' = {}
               /\ Cardinality(ReceiptFetches(rpc')) = Cardinality(FetchedTxs(rpc'))
               /\ Cardinality(ReceiptFetches(rpc')) = Cardinality(ReceiptFetches(rpc)) + 1
               /\ decimals_map' = decimals_map
               /\ pc' # "fetch" => txs_to_fetch' = {}
        /\ pc \notin {"mark", "fetch"} => ReceiptFetches(rpc') = ReceiptFetches(rpc)
      ]_vars


\* the request a step has issued, if it issued one
Issued(before, after) ==
    IF Len(after) > Len(before) THEN <<after[Len(after)]>> ELSE <<>>

\* C22: a step changes the decimals cache only by adding one entry, for an
\* address that had none, right after a decimals() call to that address that
\* succeeded with at least 32 bytes, the entry being the returned value; a
\* failed or short call leaves the cache as it was, and no entry is removed or
\* given another value.
C22_CacheAppendOnly ==
    [][ LET call == Issued(rpc, rpc')
        IN  /\ \A addr \in DOMAIN decimals_map :
                   /\ addr \in DOMAIN decimals_map'
                   /\ decimals_map'[addr] = decimals_map[addr]
            /\ \A addr \in DOMAIN decimals_map' \ DOMAIN decimals_map :
                   /\ call # <<>>
                   /\ call[1].op = "call"
                   /\ call[1].arg = addr
                   /\ call[1].ret.ok
                   /\ call[1].ret.len >= WORD
                   /\ decimals_map'[addr] = call[1].ret.lo
            /\ (/\ call # <<>>
                /\ call[1].op = "call"
                /\ ~call[1].ret.ok \/ call[1].ret.len < WORD)
                   => decimals_map' = decimals_map
      ]_vars

\* a finished batch in which a probe failed, a later one succeeded, and the
\* cache holds the address of the second only
C22_Witness ==
    /\ pc = "done"
    /\ \E j, k \in Calls(rpc) :
        /\ j < k
        /\ ~rpc[j].ret.ok
        /\ rpc[j].arg \notin DOMAIN decimals_map
        /\ rpc[k].ret.ok
        /\ rpc[k].arg \in DOMAIN decimals_map
        /\ decimals_map[rpc[k].arg] = rpc[k].ret.lo


\* what a resolve-and-cache step did for a leg of the log with asset_id and
\* its own amount, `dec` being the decimals the step gave the leg
LegResolved(log, asset_id, amount, dec) ==
    LET call == Issued(rpc, rpc')
        tx == log.transaction_hash[1]
        found == /\ tx \in DOMAIN receipt_token_map
                 /\ amount \in DOMAIN receipt_token_map[tx]
        real_token_addr == receipt_token_map[tx][amount]
    IN  IF ~found
        THEN dec = DEFAULT_DECIMALS /\ call = <<>> /\ decimals_map' = decimals_map
        ELSE IF real_token_addr \in DOMAIN decimals_map
        THEN /\ dec = decimals_map[real_token_addr]
             /\ call = <<>>
             /\ decimals_map' = decimals_map
        ELSE /\ call # <<>>
             /\ call[1].op = "call"
             /\ call[1].arg = real_token_addr
             /\ Usable(call[1].ret) =>
                    /\ dec = call[1].ret.lo
                    /\ decimals_map' = Insert(decimals_map, real_token_addr, dec)
             /\ (~call[1].ret.ok \/ call[1].ret.len < WORD) =>
                    /\ dec = DEFAULT_DECIMALS
                    /\ decimals_map' = decimals_map

\* the leg of a log is one resolve-and-cache handles: a non-zero asset id
\* whose candidate address is not cached, on a log with a transaction hash
ForReceiptLookup(log, asset_id) ==
    /\ asset_id # ZeroId
    /\ asset_id.lo \notin DOMAIN decimals_map
    /\ log.transaction_hash # None

\* C23: for a maker (taker) leg with a non-zero asset id whose candidate
\* address is not cached, the step looks up the maker (taker) amount of the
\* trade in the map of the trade's own transaction.  Not found: 18, no probe.
\* Found and the mapped address cached: the cached value, no probe.  Found and
\* not cached: one probe of the mapped address; its value becomes the leg's
\* decimals and the cache entry of that address, and a failed or short probe
\* leaves 18 and the cache as it was.
C23_ResolveAndCache ==
    [][ /\ (pc = "maker" /\ ~Panicked'
            /\ ForReceiptLookup(Head(raw_trades).log, Head(raw_trades).log.data[1])) =>
               LegResolved(Head(raw_trades).log, Head(raw_trades).log.data[1],
                           Head(raw_trades).log.data[3], maker_decimals')
        /\ (pc = "taker" /\ ~Panicked'
            /\ ForReceiptLookup(Head(raw_trades).log, Head(raw_trades).log.data[2])) =>
               /\ Len(trades') = Len(trades) + 1
               /\ LegResolved(Head(raw_trades).log, Head(raw_trades).log.data[2],
                              Head(raw_trades).log.data[4],
                              trades'[Len(trades')].taker_decimals)
      ]_vars

\* a finished batch of two trades of one transaction: the first probed the
\* address the receipt gives for its token amount and cached 8, and the second
\* trade's leg has the cached 8 with no second probe of that address
C23_Witness ==
    /\ pc = "done"
    /\ Len(trades) = 2
    /\ Kept[1].transaction_hash = Kept[2].transaction_hash
    /\ Kept[1].data[2] = IdA
    /\ Kept[2].data[1] = IdA
    /\ IdA.lo \notin DOMAIN decimals_map
    /\ trades[1].taker_decimals = 8
    /\ trades[2].maker_decimals = 8
    /\ \E t \in DOMAIN receipt_token_map :
           /\ Tokens \in DOMAIN receipt_token_map[t]
           /\ CallCount(rpc, receipt_token_map[t][Tokens]) = 1
           /\ receipt_token_map[t][Tokens] \in DOMAIN decimals_map


\* C24: after every decimals() call that succeeds with at least 32 bytes, an
\* integer of 2^32 or more and more than 32 bytes included, the batch goes on
\* and the cache holds the low 32 bits of the returned integer for the address
\* called.
C24_LowBitsCached ==
    [][ LET call == Issued(rpc, rpc')
        IN  (/\ call # <<>>
             /\ call[1].op = "call"
             /\ call[1].ret.ok
             /\ call[1].ret.len >= WORD)
                => /\ pc' \notin {"panic_slice", "panic_overflow"}
                   /\ call[1].arg \in DOMAIN decimals_map'
                   /\ decimals_map'[call[1].arg] = call[1].ret.lo
      ]_vars


HasTxHash(log) == log.transaction_hash # None

\* C25: for a batch whose logs with at least 128 bytes of data all have 4
\* topics and a transaction hash, the run is never aborted and returns one
\* record per such log, in the order of the logs; every field of a record but
\* maker_decimals, taker_decimals and price is that of the log alone, whatever
\* the probes and the receipt fetches answered.
C25_OneRecordPerLog ==
    (\A j \in 1..Len(Kept) : FourTopics(Kept[j]) /\ HasTxHash(Kept[j]))
        => /\ ~Panicked
           /\ pc = "done" => Len(trades) = Len(Kept)
           /\ \A j \in 1..Len(trades) :
                  LET of_log == parse_final(Kept[j], DEFAULT_DECIMALS,
                                            DEFAULT_DECIMALS).output
                  IN  [trades[j] EXCEPT !.maker_decimals = DEFAULT_DECIMALS,
                                        !.taker_decimals = DEFAULT_DECIMALS,
                                        !.price = of_log.price] = of_log


\* the receipt fetches of process_logs that failed or found no receipt
FailedFetches == { j \in ReceiptFetches(rpc) : rpc[j].res \in {"err", "none"} }

\* C26: a receipt fetch of process_logs that fails or finds no receipt does
\* not make the run return an error and leaves no map for its transaction,
\* and in the records of a finished run every leg of that transaction with a
\* non-zero asset id that the direct probes did not resolve has decimals 18.
C26_FailedReceiptSwallowed ==
    \A f \in FailedFetches :
        /\ pc # "error"
        /\ rpc[f].arg \notin DOMAIN receipt_token_map
        /\ (pc = "done" /\ Len(trades) = Len(Kept)) =>
               \A j \in 1..Len(trades) :
                   Kept[j].transaction_hash = Some(rpc[f].arg) =>
                       /\ (/\ Kept[j].data[1] # ZeroId
                           /\ ~ResolvedDirectly(Kept[j].data[1].lo))
                              => trades[j].maker_decimals = DEFAULT_DECIMALS
                       /\ (/\ Kept[j].data[2] # ZeroId
                           /\ ~ResolvedDirectly(Kept[j].data[2].lo))
                              => trades[j].taker_decimals = DEFAULT_DECIMALS


\* C27: in every MarketInfo returned by a scan operation or built by a manual
\* branch, yes_token_id and no_token_id are the position ids of the collateral
\* token and the collections 1 and 2 of the condition id that the same record
\* reports.
C27_MarketInfoConsistent ==
    pc = "done" =>
        \A j \in 1..Len(markets) :
            /\ markets[j].yes_token_id = TokenIdsOf(markets[j].condition_id.hex64).yes
            /\ markets[j].no_token_id = TokenIdsOf(markets[j].condition_id.hex64).no


\* the node answered as a function of the argument: two decimals() calls to
\* one address got the same answer (a receipt is fetched once)
FixedAnswers ==
    \A j, k \in Calls(rpc) : rpc[j].arg = rpc[k].arg => rpc[j].ret = rpc[k].ret

Asked(addr) == addr \in ProbedAddrs(rpc)

AnswerOf(addr) == rpc[CHOOSE j \in Calls(rpc) : rpc[j].arg = addr].ret

Resolves(addr) == Asked(addr) /\ Usable(AnswerOf(addr))

\* the cache the direct probes give, whatever their order
DirectCacheOf(ls) ==
    [addr \in { a \in CandidatesOf(ls) : Resolves(a) } |-> AnswerOf(addr).lo]

\* the value -> address maps of the receipts fetched, whatever their order
ReceiptMapsOf(history) ==
    [tx \in { history[j].arg :
                j \in { f \in ReceiptFetches(history) : history[f].res = "ok" } } |->
        LET f == CHOOSE j \in ReceiptFetches(history) : history[j].arg = tx
        IN  [value \in TransferValues(history[f].logs) |->
                LastTransferAddress(history[f].logs, value)]]

\* the decimals of one leg and the cache after it
LegOf(asset_id, amount, tx, cache, maps) ==
    IF asset_id = ZeroId THEN [dec |-> SENTINEL_DECIMALS, cache |-> cache]
    ELSE IF asset_id.lo \in DOMAIN cache
    THEN [dec |-> cache[asset_id.lo], cache |-> cache]
    ELSE IF tx = None \/ tx[1] \notin DOMAIN maps \/ amount \notin DOMAIN maps[tx[1]]
    THEN [dec |-> DEFAULT_DECIMALS, cache |-> cache]
    ELSE LET addr == maps[tx[1]][amount]
         IN  IF addr \in DOMAIN cache THEN [dec |-> cache[addr], cache |-> cache]
             ELSE IF Resolves(addr)
             THEN [dec |-> AnswerOf(addr).lo,
                   cache |-> Insert(cache, addr, AnswerOf(addr).lo)]
             ELSE [dec |-> DEFAULT_DECIMALS, cache |-> cache]

\* the records of the logs, read in order from a cache and the receipt maps
RECURSIVE RecordsOf(_, _, _)
RecordsOf(ls, cache, maps) ==
    IF ls = <<>> THEN <<>>
    ELSE LET log == Head(ls)
             m == LegOf(log.data[1], log.data[3], log.transaction_hash, cache, maps)
             t == LegOf(log.data[2], log.data[4], log.transaction_hash, m.cache, maps)
         IN  <<parse_final(log, m.dec, t.dec).output>>
                 \o RecordsOf(Tail(ls), t.cache, maps)

\* C28: when the node answers as a function of the argument, a finished run
\* has probed every candidate address and fetched the receipt of every marked
\* transaction, and its records are those that the logs, the answers to the
\* candidates and the receipts determine: they do not depend on the order in
\* which the candidates were probed or the receipts fetched.
C28_OrderIndependent ==
    (pc = "done" /\ FixedAnswers) =>
        /\ CandidatesOf(Kept) \subseteq ProbedAddrs(rpc)
        /\ FetchedTxs(rpc) = NeededTxs(Kept, DirectCacheOf(Kept))
        /\ trades = RecordsOf(Kept, DirectCacheOf(Kept), ReceiptMapsOf(rpc))

\* a finished run that probed address 2 before address 1 and fetched the
\* receipt of transaction 2 before that of transaction 1
C28_Witness ==
    /\ pc = "done"
    /\ FixedAnswers
    /\ Len(trades) = 2
    /\ \E i, j \in Calls(rpc) :
        /\ i < j
        /\ rpc[i].arg = 2
        /\ rpc[j].arg = 1
        /\ \A f \in ReceiptFetches(rpc) : j < f
    /\ \E f, g \in ReceiptFetches(rpc) :
        /\ f < g
        /\ rpc[f].arg = 2
        /\ rpc[g].arg = 1
        /\ rpc[f].res = "ok"
        /\ rpc[g].res = "ok"


\* C29: a log without a transaction hash never aborts the run, and in a
\* finished run its record exists with decimals 18 for a leg with a non-zero
\* asset id whose candidate address has no cache entry.
C29_MissingTxHash ==
    /\ pc # "panic_unwrap"
    /\ (pc = "done" /\ Len(trades) = Len(Kept)) =>
           \A j \in 1..Len(trades) :
               Kept[j].transaction_hash = None =>
                   /\ (/\ Kept[j].data[1] # ZeroId
                       /\ Kept[j].data[1].lo \notin DOMAIN decimals_map)
                          => trades[j].maker_decimals = DEFAULT_DECIMALS
                   /\ (/\ Kept[j].data[2] # ZeroId
                       /\ Kept[j].data[2].lo \notin DOMAIN decimals_map)
                          => trades[j].taker_decimals = DEFAULT_DECIMALS

=============================================================================
